---- MODULE Spec2Model ----
(***************************************************************************)
(* The txf backtest core: BacktestEngine.run driving, bar by bar, the      *)
(* MatchingEngine, the PositionManager, the RiskManager and the            *)
(* StrategyContext.                                                        *)
(*                                                                         *)
(* Decimal values (prices, cash, P&L, margin, commission, tax) are carried *)
(* as integers counting 1/DecScale of a unit, so 20000 points is           *)
(* 20000 * DecScale and 80.004 TWD is 80004.  Sums, differences and        *)
(* products with a quantity or a multiplier are exact in that form; the    *)
(* one quotient of the accounting path (the weighted average price) is     *)
(* rounded half-even to the last carried digit, as a Decimal quotient is   *)
(* rounded to the last digit of its context.  A bar's datetime is its      *)
(* position in the feed.                                                   *)
(***************************************************************************)
EXTENDS Integers, Sequences, FiniteSets, TLC

\* ---------------------------------------------------------------- bounds
MaxBars == 3
MaxOrders == 2

\* ------------------------------------------------------ decimal carrying
DecScale == 1000

D(n) == n * DecScale

Min(a, b) == IF a <= b THEN a ELSE b

Max(a, b) == IF a >= b THEN a ELSE b

Abs(a) == IF a < 0 THEN 0 - a ELSE a

\* num / den for num >= 0, den > 0, rounded half-even to an integer.
DecimalDivide(num, den) ==
    LET q == num \div den
        r == num % den
    IN  IF 2 * r < den THEN q
        ELSE IF 2 * r > den THEN q + 1
        ELSE IF q % 2 = 0 THEN q ELSE q + 1

\* ----------------------------------------------------------------- dicts
EmptyDict == [k \in {} |-> 0]

DictHas(d, k) == k \in DOMAIN d

DictGet(d, k, default) == IF k \in DOMAIN d THEN d[k] ELSE default

DictSet(d, k, v) == [x \in (DOMAIN d) \cup {k} |-> IF x = k THEN v ELSE d[x]]

DictPop(d, k) == [x \in (DOMAIN d) \ {k} |-> d[x]]

\* A value that stands for Python's None.
None == [none |-> TRUE]

\* ------------------------------------------------------ program constants
TX_MULTIPLIER == 200
TX_TICK_SIZE == 1

MTX_MULTIPLIER == 50

MTX_TICK_SIZE == 1

MTX_INITIAL_MARGIN == 46000

MTX_MAINTENANCE_MARGIN == 35250
TX_INITIAL_MARGIN == 184000
TX_MAINTENANCE_MARGIN == 141000
DEFAULT_COMMISSION_PER_CONTRACT == 60
\* DEFAULT_TAX_RATE = 0.00002, two per hundred thousand.
DEFAULT_TAX_RATE_PER_100000 == 2

\* BacktestSettings defaults.
initial_capital == 1000000
slippage_ticks == 1

\* RiskSettings defaults.
max_position_contracts == 10
max_drawdown_pct_percent == 10
max_daily_loss == 100000

BUY == "BUY"
SELL == "SELL"
MARKET == "MARKET"
LIMIT == "LIMIT"

Opposite(side) == IF side = BUY THEN SELL ELSE BUY

\* --------------------------------------------------------------- contracts
TX_SPEC ==
    [ symbol |-> "TX",
      multiplier |-> TX_MULTIPLIER,
      tick_size |-> D(TX_TICK_SIZE),
      initial_margin |-> D(TX_INITIAL_MARGIN),
      maintenance_margin |-> D(TX_MAINTENANCE_MARGIN) ]

\* The engine's configured symbol, which the feed's bars carry.
EngineSymbol == "TX"

MTX_SPEC ==
    [ symbol |-> "MTX",
      multiplier |-> MTX_MULTIPLIER,
      tick_size |-> D(MTX_TICK_SIZE),
      initial_margin |-> D(MTX_INITIAL_MARGIN),
      maintenance_margin |-> D(MTX_MAINTENANCE_MARGIN) ]

\* The registry a new ContractRegistry holds.
ContractRegistry_specs ==
    [ base \in { "TX", "MTX" } |-> IF base = "TX" THEN TX_SPEC ELSE MTX_SPEC ]

ContractRegistry_get(symbol) ==
    CASE symbol = "TX" -> TX_SPEC
      [] symbol = "MTX" -> MTX_SPEC

\* ------------------------------------------------------------- calculator
calculate_unrealized_pnl(side, avg_price, current_price, quantity, multiplier) ==
    IF side = BUY
    THEN (current_price - avg_price) * quantity * multiplier
    ELSE (avg_price - current_price) * quantity * multiplier

\* Variant: the P&L of a long, whatever the side.
calculate_realized_pnl_as_long(side, entry_price, exit_price, quantity, multiplier) ==
    (exit_price - entry_price) * quantity * multiplier

calculate_realized_pnl(side, entry_price, exit_price, quantity, multiplier) ==
    IF side = BUY
    THEN (exit_price - entry_price) * quantity * multiplier
    ELSE (entry_price - exit_price) * quantity * multiplier

calculate_margin_required(quantity, spec) == spec.initial_margin * quantity

\* price * quantity * multiplier.  Fills are at whole ticks, so the notional
\* is a whole number of currency units and is carried as that number.
calculate_notional_value(price, quantity, multiplier) ==
    (price \div DecScale) * quantity * multiplier

\* ------------------------------------------------------- commission model
calculate_commission(quantity) == D(DEFAULT_COMMISSION_PER_CONTRACT) * quantity

\* notional_value * tax_rate, for a notional in whole currency units.
calculate_tax(notional_value) ==
    (notional_value * DEFAULT_TAX_RATE_PER_100000) \div (100000 \div DecScale)

\* ------------------------------------------------------- position manager
\* PositionManager.__init__: the manager's fields after construction.
PositionManager_init ==
    [ cash |-> D(initial_capital),
      positions |-> EmptyDict,
      realized_pnl |-> 0,
      trade_records |-> <<>>,
      equity_curve |-> <<>>,
      entry_bar_index |-> EmptyDict,
      current_bar_index |-> 0 ]

\* Variant: opening a position does not stamp its entry bar index.
open_position_entry_bar_unset(pm, fill, initial_margin) ==
    [ pm EXCEPT
        !.positions = DictSet(pm.positions, fill.symbol,
            [ symbol |-> fill.symbol,
              side |-> fill.side,
              quantity |-> fill.quantity,
              avg_price |-> fill.price,
              unrealized_pnl |-> 0,
              margin_required |-> initial_margin * fill.quantity ]) ]

open_position(pm, fill, initial_margin) ==
    [ pm EXCEPT
        !.positions = DictSet(pm.positions, fill.symbol,
            [ symbol |-> fill.symbol,
              side |-> fill.side,
              quantity |-> fill.quantity,
              avg_price |-> fill.price,
              unrealized_pnl |-> 0,
              margin_required |-> initial_margin * fill.quantity ]),
        !.entry_bar_index =
            DictSet(pm.entry_bar_index, fill.symbol, pm.current_bar_index) ]

\* Variant: adding to a position charges margin for the added contracts only.
add_to_position_margin_of_fill(pm, fill, pos, initial_margin) ==
    LET total_qty == pos.quantity + fill.quantity
    IN  [ pm EXCEPT
            !.positions = DictSet(pm.positions, fill.symbol,
                [ pos EXCEPT
                    !.avg_price = DecimalDivide(
                        pos.avg_price * pos.quantity + fill.price * fill.quantity,
                        total_qty),
                    !.quantity = total_qty,
                    !.margin_required = initial_margin * fill.quantity ]) ]

add_to_position(pm, fill, pos, initial_margin) ==
    LET total_qty == pos.quantity + fill.quantity
    IN  [ pm EXCEPT
            !.positions = DictSet(pm.positions, fill.symbol,
                [ pos EXCEPT
                    !.avg_price = DecimalDivide(
                        pos.avg_price * pos.quantity + fill.price * fill.quantity,
                        total_qty),
                    !.quantity = total_qty,
                    !.margin_required = initial_margin * total_qty ]) ]

\* Variant: the realized P&L of a close is not credited to cash.
reduce_or_reverse_pnl_not_in_cash(pm, fill, pos, spec) ==
    LET close_qty == Min(fill.quantity, pos.quantity)
        remaining_fill_qty == fill.quantity - close_qty
        pnl == calculate_realized_pnl(pos.side, pos.avg_price, fill.price,
                                      close_qty, spec.multiplier)
        entry_bar == DictGet(pm.entry_bar_index, fill.symbol, 0)
        record ==
            [ symbol |-> fill.symbol,
              side |-> pos.side,
              entry_price |-> pos.avg_price,
              exit_price |-> fill.price,
              quantity |-> close_qty,
              entry_time |-> fill.timestamp,
              exit_time |-> fill.timestamp,
              pnl |-> pnl,
              commission |-> fill.commission,
              tax |-> fill.tax,
              bars_held |-> pm.current_bar_index - entry_bar ]
        new_qty == pos.quantity - close_qty
        closed == [ pos EXCEPT !.quantity = 0,
                               !.unrealized_pnl = 0,
                               !.margin_required = 0 ]
        pm1 == [ pm EXCEPT !.realized_pnl = pm.realized_pnl + pnl,
                           !.trade_records = Append(pm.trade_records, record) ]
    IN  IF new_qty = 0 /\ remaining_fill_qty = 0
        THEN \* Case 4: full close
             [ pm1 EXCEPT !.positions = DictSet(pm.positions, fill.symbol, closed) ]
        ELSE IF new_qty > 0
        THEN \* Case 3: partial close
             [ pm1 EXCEPT !.positions = DictSet(pm.positions, fill.symbol,
                 [ pos EXCEPT !.quantity = new_qty,
                              !.margin_required = spec.initial_margin * new_qty ]) ]
        ELSE \* Case 5: reverse
             IF remaining_fill_qty > 0
             THEN [ pm1 EXCEPT
                      !.positions = DictSet(pm.positions, fill.symbol,
                          [ symbol |-> fill.symbol,
                            side |-> fill.side,
                            quantity |-> remaining_fill_qty,
                            avg_price |-> fill.price,
                            unrealized_pnl |-> 0,
                            margin_required |->
                                spec.initial_margin * remaining_fill_qty ]),
                      !.entry_bar_index = DictSet(pm.entry_bar_index,
                          fill.symbol, pm.current_bar_index) ]
             ELSE [ pm1 EXCEPT
                      !.positions = DictSet(pm.positions, fill.symbol, closed) ]

\* Variant: a partial close leaves margin_required as it was.
reduce_or_reverse_margin_kept(pm, fill, pos, spec) ==
    LET close_qty == Min(fill.quantity, pos.quantity)
        remaining_fill_qty == fill.quantity - close_qty
        pnl == calculate_realized_pnl(pos.side, pos.avg_price, fill.price,
                                      close_qty, spec.multiplier)
        entry_bar == DictGet(pm.entry_bar_index, fill.symbol, 0)
        record ==
            [ symbol |-> fill.symbol,
              side |-> pos.side,
              entry_price |-> pos.avg_price,
              exit_price |-> fill.price,
              quantity |-> close_qty,
              entry_time |-> fill.timestamp,
              exit_time |-> fill.timestamp,
              pnl |-> pnl,
              commission |-> fill.commission,
              tax |-> fill.tax,
              bars_held |-> pm.current_bar_index - entry_bar ]
        new_qty == pos.quantity - close_qty
        closed == [ pos EXCEPT !.quantity = 0,
                               !.unrealized_pnl = 0,
                               !.margin_required = 0 ]
        pm1 == [ pm EXCEPT !.realized_pnl = pm.realized_pnl + pnl,
                           !.cash = pm.cash + pnl,
                           !.trade_records = Append(pm.trade_records, record) ]
    IN  IF new_qty = 0 /\ remaining_fill_qty = 0
        THEN \* Case 4: full close
             [ pm1 EXCEPT !.positions = DictSet(pm.positions, fill.symbol, closed) ]
        ELSE IF new_qty > 0
        THEN \* Case 3: partial close
             [ pm1 EXCEPT !.positions = DictSet(pm.positions, fill.symbol,
                 [ pos EXCEPT !.quantity = new_qty ]) ]
        ELSE \* Case 5: reverse
             IF remaining_fill_qty > 0
             THEN [ pm1 EXCEPT
                      !.positions = DictSet(pm.positions, fill.symbol,
                          [ symbol |-> fill.symbol,
                            side |-> fill.side,
                            quantity |-> remaining_fill_qty,
                            avg_price |-> fill.price,
                            unrealized_pnl |-> 0,
                            margin_required |->
                                spec.initial_margin * remaining_fill_qty ]),
                      !.entry_bar_index = DictSet(pm.entry_bar_index,
                          fill.symbol, pm.current_bar_index) ]
             ELSE [ pm1 EXCEPT
                      !.positions = DictSet(pm.positions, fill.symbol, closed) ]

\* Variant: a reverse keeps the entry bar index of the closed position.
reduce_or_reverse_entry_bar_kept(pm, fill, pos, spec) ==
    LET close_qty == Min(fill.quantity, pos.quantity)
        remaining_fill_qty == fill.quantity - close_qty
        pnl == calculate_realized_pnl(pos.side, pos.avg_price, fill.price,
                                      close_qty, spec.multiplier)
        entry_bar == DictGet(pm.entry_bar_index, fill.symbol, 0)
        record ==
            [ symbol |-> fill.symbol,
              side |-> pos.side,
              entry_price |-> pos.avg_price,
              exit_price |-> fill.price,
              quantity |-> close_qty,
              entry_time |-> fill.timestamp,
              exit_time |-> fill.timestamp,
              pnl |-> pnl,
              commission |-> fill.commission,
              tax |-> fill.tax,
              bars_held |-> pm.current_bar_index - entry_bar ]
        new_qty == pos.quantity - close_qty
        closed == [ pos EXCEPT !.quantity = 0,
                               !.unrealized_pnl = 0,
                               !.margin_required = 0 ]
        pm1 == [ pm EXCEPT !.realized_pnl = pm.realized_pnl + pnl,
                           !.cash = pm.cash + pnl,
                           !.trade_records = Append(pm.trade_records, record) ]
    IN  IF new_qty = 0 /\ remaining_fill_qty = 0
        THEN \* Case 4: full close
             [ pm1 EXCEPT !.positions = DictSet(pm.positions, fill.symbol, closed) ]
        ELSE IF new_qty > 0
        THEN \* Case 3: partial close
             [ pm1 EXCEPT !.positions = DictSet(pm.positions, fill.symbol,
                 [ pos EXCEPT !.quantity = new_qty,
                              !.margin_required = spec.initial_margin * new_qty ]) ]
        ELSE \* Case 5: reverse
             IF remaining_fill_qty > 0
             THEN [ pm1 EXCEPT
                      !.positions = DictSet(pm.positions, fill.symbol,
                          [ symbol |-> fill.symbol,
                            side |-> fill.side,
                            quantity |-> remaining_fill_qty,
                            avg_price |-> fill.price,
                            unrealized_pnl |-> 0,
                            margin_required |->
                                spec.initial_margin * remaining_fill_qty ]) ]
             ELSE [ pm1 EXCEPT
                      !.positions = DictSet(pm.positions, fill.symbol, closed) ]

reduce_or_reverse(pm, fill, pos, spec) ==
    LET close_qty == Min(fill.quantity, pos.quantity)
        remaining_fill_qty == fill.quantity - close_qty
        pnl == calculate_realized_pnl(pos.side, pos.avg_price, fill.price,
                                      close_qty, spec.multiplier)
        entry_bar == DictGet(pm.entry_bar_index, fill.symbol, 0)
        record ==
            [ symbol |-> fill.symbol,
              side |-> pos.side,
              entry_price |-> pos.avg_price,
              exit_price |-> fill.price,
              quantity |-> close_qty,
              entry_time |-> fill.timestamp,
              exit_time |-> fill.timestamp,
              pnl |-> pnl,
              commission |-> fill.commission,
              tax |-> fill.tax,
              bars_held |-> pm.current_bar_index - entry_bar ]
        new_qty == pos.quantity - close_qty
        closed == [ pos EXCEPT !.quantity = 0,
                               !.unrealized_pnl = 0,
                               !.margin_required = 0 ]
        pm1 == [ pm EXCEPT !.realized_pnl = pm.realized_pnl + pnl,
                           !.cash = pm.cash + pnl,
                           !.trade_records = Append(pm.trade_records, record) ]
    IN  IF new_qty = 0 /\ remaining_fill_qty = 0
        THEN \* Case 4: full close
             [ pm1 EXCEPT !.positions = DictSet(pm.positions, fill.symbol, closed) ]
        ELSE IF new_qty > 0
        THEN \* Case 3: partial close
             [ pm1 EXCEPT !.positions = DictSet(pm.positions, fill.symbol,
                 [ pos EXCEPT !.quantity = new_qty,
                              !.margin_required = spec.initial_margin * new_qty ]) ]
        ELSE \* Case 5: reverse
             IF remaining_fill_qty > 0
             THEN [ pm1 EXCEPT
                      !.positions = DictSet(pm.positions, fill.symbol,
                          [ symbol |-> fill.symbol,
                            side |-> fill.side,
                            quantity |-> remaining_fill_qty,
                            avg_price |-> fill.price,
                            unrealized_pnl |-> 0,
                            margin_required |->
                                spec.initial_margin * remaining_fill_qty ]),
                      !.entry_bar_index = DictSet(pm.entry_bar_index,
                          fill.symbol, pm.current_bar_index) ]
             ELSE [ pm1 EXCEPT
                      !.positions = DictSet(pm.positions, fill.symbol, closed) ]

\* Variant: the tax of a fill is not taken from cash.
apply_fill_commission_only(pm, fill) ==
    LET spec == ContractRegistry_get(fill.symbol)
        pm1 == [ pm EXCEPT !.cash = pm.cash - fill.commission ]
    IN  IF ~DictHas(pm.positions, fill.symbol)
           \/ pm.positions[fill.symbol].quantity = 0
        THEN open_position(pm1, fill, spec.initial_margin)
        ELSE IF pm.positions[fill.symbol].side = fill.side
        THEN add_to_position(pm1, fill, pm.positions[fill.symbol],
                             spec.initial_margin)
        ELSE reduce_or_reverse(pm1, fill, pm.positions[fill.symbol], spec)

\* Variant: a stored position of quantity 0 is treated as open.
apply_fill_no_flat_check(pm, fill) ==
    LET spec == ContractRegistry_get(fill.symbol)
        pm1 == [ pm EXCEPT !.cash = pm.cash - (fill.commission + fill.tax) ]
    IN  IF ~DictHas(pm.positions, fill.symbol)
        THEN open_position(pm1, fill, spec.initial_margin)
        ELSE IF pm.positions[fill.symbol].side = fill.side
        THEN add_to_position(pm1, fill, pm.positions[fill.symbol],
                             spec.initial_margin)
        ELSE reduce_or_reverse(pm1, fill, pm.positions[fill.symbol], spec)

apply_fill(pm, fill) ==
    LET spec == ContractRegistry_get(fill.symbol)
        pm1 == [ pm EXCEPT !.cash = pm.cash - (fill.commission + fill.tax) ]
    IN  IF ~DictHas(pm.positions, fill.symbol)
           \/ pm.positions[fill.symbol].quantity = 0
        THEN open_position(pm1, fill, spec.initial_margin)
        ELSE IF pm.positions[fill.symbol].side = fill.side
        THEN add_to_position(pm1, fill, pm.positions[fill.symbol],
                             spec.initial_margin)
        ELSE reduce_or_reverse(pm1, fill, pm.positions[fill.symbol], spec)

mark_to_market(pm, symbol, current_price) ==
    IF ~DictHas(pm.positions, symbol) \/ pm.positions[symbol].quantity = 0
    THEN pm
    ELSE LET pos == pm.positions[symbol]
             spec == ContractRegistry_get(symbol)
         IN  [ pm EXCEPT !.positions = DictSet(pm.positions, symbol,
                 [ pos EXCEPT
                     !.unrealized_pnl = calculate_unrealized_pnl(
                         pos.side, pos.avg_price, current_price,
                         pos.quantity, spec.multiplier),
                     !.margin_required =
                         calculate_margin_required(pos.quantity, spec) ]) ]

\* The symbols whose position has quantity > 0.
OpenSymbols(pm) == { s \in DOMAIN pm.positions : pm.positions[s].quantity > 0 }

RECURSIVE SumUnrealized(_, _)
SumUnrealized(pm, syms) ==
    IF syms = {} THEN 0
    ELSE LET s == CHOOSE x \in syms : TRUE
         IN  pm.positions[s].unrealized_pnl + SumUnrealized(pm, syms \ {s})

RECURSIVE SumMargin(_, _)
SumMargin(pm, syms) ==
    IF syms = {} THEN 0
    ELSE LET s == CHOOSE x \in syms : TRUE
         IN  pm.positions[s].margin_required + SumMargin(pm, syms \ {s})

total_equity(pm) == pm.cash + SumUnrealized(pm, OpenSymbols(pm))

\* Variant: equity is recorded only while a position is open.
snapshot_equity_when_invested(pm) ==
    IF OpenSymbols(pm) = {} THEN pm
    ELSE [ pm EXCEPT !.equity_curve = Append(pm.equity_curve, total_equity(pm)) ]

snapshot_equity(pm) ==
    [ pm EXCEPT !.equity_curve = Append(pm.equity_curve, total_equity(pm)) ]

\* Variant: the stored position is returned whatever its quantity.
get_position_stored(pm, symbol) ==
    IF ~DictHas(pm.positions, symbol) THEN None
    ELSE pm.positions[symbol]

get_position(pm, symbol) ==
    IF ~DictHas(pm.positions, symbol) THEN None
    ELSE IF pm.positions[symbol].quantity = 0 THEN None
    ELSE pm.positions[symbol]

get_portfolio_state(pm) ==
    LET unrealized == SumUnrealized(pm, OpenSymbols(pm))
        used_margin == SumMargin(pm, OpenSymbols(pm))
        equity == pm.cash + unrealized
    IN  [ cash |-> pm.cash,
          positions |-> [ s \in OpenSymbols(pm) |-> pm.positions[s] ],
          total_equity |-> equity,
          used_margin |-> used_margin,
          available_margin |-> equity - used_margin,
          realized_pnl |-> pm.realized_pnl,
          unrealized_pnl |-> unrealized ]

set_bar_index(pm, index) == [ pm EXCEPT !.current_bar_index = index ]

\* -------------------------------------------------------- matching engine
\* An Optional[...] field is <<>> for None and <<v>> for the value v.
Nothing == <<>>

Some(v) == <<v>>

create_fill(order, price, timestamp) ==
    LET spec == ContractRegistry_get(order.symbol)
        notional == calculate_notional_value(price, order.quantity, spec.multiplier)
    IN  [ order_id |-> order.id,
          symbol |-> order.symbol,
          side |-> order.side,
          price |-> price,
          quantity |-> order.quantity,
          commission |-> calculate_commission(order.quantity),
          tax |-> calculate_tax(notional),
          timestamp |-> timestamp ]

\* Variant: slippage is added to the open for both sides.
try_fill_slippage_added(order, bar) ==
    LET spec == ContractRegistry_get(order.symbol)
        slippage == spec.tick_size * slippage_ticks
    IN  IF order.price_type = MARKET
        THEN create_fill(order, bar.open + slippage, bar.datetime)
        ELSE IF order.price_type = LIMIT /\ order.price # Nothing
        THEN LET limit == order.price[1]
             IN  IF order.side = BUY /\ bar.low <= limit
                 THEN create_fill(order, Min(limit, bar.open), bar.datetime)
                 ELSE IF order.side = SELL /\ bar.high >= limit
                 THEN create_fill(order, Max(limit, bar.open), bar.datetime)
                 ELSE None
        ELSE None

\* Variant: a LIMIT order is filled at its limit price, whatever the open.
try_fill_at_limit(order, bar) ==
    LET spec == ContractRegistry_get(order.symbol)
        slippage == spec.tick_size * slippage_ticks
    IN  IF order.price_type = MARKET
        THEN IF order.side = BUY
             THEN create_fill(order, bar.open + slippage, bar.datetime)
             ELSE create_fill(order, bar.open - slippage, bar.datetime)
        ELSE IF order.price_type = LIMIT /\ order.price # Nothing
        THEN LET limit == order.price[1]
             IN  IF order.side = BUY /\ bar.low <= limit
                 THEN create_fill(order, limit, bar.datetime)
                 ELSE IF order.side = SELL /\ bar.high >= limit
                 THEN create_fill(order, limit, bar.datetime)
                 ELSE None
        ELSE None

\* MatchingEngine._try_fill: the fill of order against bar, or None.
try_fill(order, bar) ==
    LET spec == ContractRegistry_get(order.symbol)
        slippage == spec.tick_size * slippage_ticks
    IN  IF order.price_type = MARKET
        THEN IF order.side = BUY
             THEN create_fill(order, bar.open + slippage, bar.datetime)
             ELSE create_fill(order, bar.open - slippage, bar.datetime)
        ELSE IF order.price_type = LIMIT /\ order.price # Nothing
        THEN LET limit == order.price[1]
             IN  IF order.side = BUY /\ bar.low <= limit
                 THEN create_fill(order, Min(limit, bar.open), bar.datetime)
                 ELSE IF order.side = SELL /\ bar.high >= limit
                 THEN create_fill(order, Max(limit, bar.open), bar.datetime)
                 ELSE None
        ELSE None

\* BacktestEngine._on_fill, the fill callback: the fill is applied to the
\* position manager (the two events it publishes have no subscriber).
on_fill(pm, fill) == apply_fill(pm, fill)

\* The loop of MatchingEngine.on_bar over the pending orders, in queue order.
\* acc.fills are the fills so far, acc.filled the orders they filled,
\* acc.remaining the orders kept, acc.pm the position manager after the
\* callbacks so far.
RECURSIVE on_bar_loop(_, _, _)
on_bar_loop(orders, bar, acc) ==
    IF orders = <<>> THEN acc
    ELSE LET order == Head(orders)
         IN  IF order.symbol # bar.symbol
             THEN on_bar_loop(Tail(orders), bar,
                    [ acc EXCEPT !.remaining = Append(acc.remaining, order) ])
             ELSE LET fill == try_fill(order, bar)
                  IN  IF fill # None
                      THEN on_bar_loop(Tail(orders), bar,
                             [ acc EXCEPT !.fills = Append(acc.fills, fill),
                                          !.filled = Append(acc.filled, order),
                                          !.pm = on_fill(acc.pm, fill) ])
                      ELSE on_bar_loop(Tail(orders), bar,
                             [ acc EXCEPT !.remaining = Append(acc.remaining, order) ])

\* Variant: the orders kept pending are put back newest first.
MatchingEngine_on_bar_kept_newest_first(pending_orders, bar, pm) ==
    LET m == on_bar_loop(pending_orders, bar,
                [ fills |-> <<>>, filled |-> <<>>, remaining |-> <<>>, pm |-> pm ])
    IN  [ m EXCEPT !.remaining =
            [ i \in 1..Len(m.remaining) |-> m.remaining[Len(m.remaining) + 1 - i] ] ]

\* Variant: the queue is left as it was, filled orders included.
MatchingEngine_on_bar_queue_kept(pending_orders, bar, pm) ==
    LET m == on_bar_loop(pending_orders, bar,
                [ fills |-> <<>>, filled |-> <<>>, remaining |-> <<>>, pm |-> pm ])
    IN  [ m EXCEPT !.remaining = pending_orders ]

\* MatchingEngine.on_bar: the fills, the orders they filled, the orders left
\* pending and the position manager after the fill callbacks.
MatchingEngine_on_bar(pending_orders, bar, pm) ==
    on_bar_loop(pending_orders, bar,
                [ fills |-> <<>>, filled |-> <<>>, remaining |-> <<>>, pm |-> pm ])

submit_order(pending_orders, order) == Append(pending_orders, order)

\* Variant: only the first pending order with the id is removed.
cancel_order_first_only(pending_orders, order_id) ==
    LET hits == { i \in DOMAIN pending_orders : pending_orders[i].id = order_id }
        first == IF hits = {} THEN 0
                 ELSE CHOOSE i \in hits : \A j \in hits : i <= j
        kept == [ i \in 1..(Len(pending_orders) - (IF first = 0 THEN 0 ELSE 1)) |->
                    IF first = 0 \/ i < first
                    THEN pending_orders[i] ELSE pending_orders[i + 1] ]
    IN  [ pending |-> kept, returned |-> Len(kept) < Len(pending_orders) ]

\* MatchingEngine.cancel_order: the queue without the orders whose id is
\* order_id, and whether the queue got shorter.
cancel_order(pending_orders, order_id) ==
    LET kept == SelectSeq(pending_orders, LAMBDA o : o.id # order_id)
    IN  [ pending |-> kept, returned |-> Len(kept) < Len(pending_orders) ]

\* ------------------------------------------------------------------- risk
\* RiskSettings(): the defaults.
DefaultRiskSettings ==
    [ max_position_contracts |-> max_position_contracts,
      max_drawdown_pct_percent |-> max_drawdown_pct_percent,
      max_daily_loss |-> D(max_daily_loss),
      stop_loss_points |-> Nothing,
      take_profit_points |-> Nothing,
      trailing_stop_points |-> Nothing,
      time_stop_bars |-> Nothing ]

\* num / den >= percent / 100 for den > 0, num >= 0, decided without a
\* product beyond the machine integers: with den = 100 a + b the quotient
\* reaches percent / 100 exactly when (num - percent a) 100 >= percent b.
RatioAtLeastPercent(num, den, percent) ==
    LET a == den \div 100
        b == den % 100
        lhs == num - percent * a
    IN  IF lhs < 0 THEN FALSE
        ELSE IF lhs >= percent THEN TRUE
        ELSE lhs * 100 >= percent * b

\* RealtimeRiskMonitor.__init__ together with the other state RiskManager
\* holds: its _initialized flag, the stop engine's _trailing_extremes and the
\* pre-trade check's _daily_realized_pnl.
RiskManager_init ==
    [ initialized |-> FALSE,
      peak_equity |-> 0,
      session_start_equity |-> 0,
      trading_halted |-> FALSE,
      trailing_extremes |-> EmptyDict,
      daily_realized_pnl |-> 0 ]

RealtimeRiskMonitor_initialize(risk, initial_equity) ==
    [ risk EXCEPT !.peak_equity = initial_equity,
                  !.session_start_equity = initial_equity ]

\* RealtimeRiskMonitor.update: the monitor afterwards and the warnings.
RealtimeRiskMonitor_update(risk, rs, portfolio) ==
    LET peak == IF portfolio.total_equity > risk.peak_equity
                THEN portfolio.total_equity ELSE risk.peak_equity
        drawdown_breach ==
            /\ peak > 0
            /\ RatioAtLeastPercent(peak - portfolio.total_equity, peak,
                                   rs.max_drawdown_pct_percent)
        \* used_margin * 0.75; used_margin is a multiple of 4.
        margin_calls ==
            { sym \in DOMAIN portfolio.positions :
                /\ portfolio.positions[sym].margin_required > 0
                /\ portfolio.positions[sym].quantity > 0
                /\ portfolio.total_equity
                     < portfolio.used_margin - portfolio.used_margin \div 4 }
        daily_pnl == portfolio.total_equity - risk.session_start_equity
        daily_breach == daily_pnl <= 0 - rs.max_daily_loss
    IN  [ risk |-> [ risk EXCEPT
                       !.peak_equity = peak,
                       !.trading_halted =
                           risk.trading_halted \/ drawdown_breach \/ daily_breach ],
          warnings |-> (IF drawdown_breach THEN <<"DRAWDOWN BREACH">> ELSE <<>>)
                       \o [ i \in 1..Cardinality(margin_calls) |-> "MARGIN CALL" ]
                       \o (IF daily_breach THEN <<"DAILY LOSS LIMIT">> ELSE <<>>) ]

should_force_close(risk) == risk.trading_halted

\* ------------------------------------------------------------ stop engine
\* Variant: the stop-loss level itself does not trigger.
check_stop_loss_beyond_level(rs, bar, pos) ==
    IF rs.stop_loss_points = Nothing THEN FALSE
    ELSE IF pos.side = BUY
    THEN bar.low < pos.avg_price - D(rs.stop_loss_points[1])
    ELSE bar.high > pos.avg_price + D(rs.stop_loss_points[1])

check_stop_loss(rs, bar, pos) ==
    IF rs.stop_loss_points = Nothing THEN FALSE
    ELSE IF pos.side = BUY
    THEN bar.low <= pos.avg_price - D(rs.stop_loss_points[1])
    ELSE bar.high >= pos.avg_price + D(rs.stop_loss_points[1])

check_take_profit(rs, bar, pos) ==
    IF rs.take_profit_points = Nothing THEN FALSE
    ELSE IF pos.side = BUY
    THEN bar.high >= pos.avg_price + D(rs.take_profit_points[1])
    ELSE bar.low <= pos.avg_price - D(rs.take_profit_points[1])

check_trailing_stop(rs, extremes, bar, pos) ==
    IF rs.trailing_stop_points = Nothing THEN FALSE
    ELSE IF ~DictHas(extremes, bar.symbol) THEN FALSE
    ELSE IF pos.side = BUY
    THEN bar.low <= extremes[bar.symbol] - D(rs.trailing_stop_points[1])
    ELSE bar.high >= extremes[bar.symbol] + D(rs.trailing_stop_points[1])

check_time_stop(rs, bars_held) ==
    IF rs.time_stop_bars = Nothing THEN FALSE
    ELSE bars_held >= rs.time_stop_bars[1]

\* Variant: the extreme follows the current bar.
update_trailing_current_bar(rs, extremes, bar, pos) ==
    IF rs.trailing_stop_points = Nothing THEN extremes
    ELSE IF pos.side = BUY
    THEN DictSet(extremes, bar.symbol, bar.high)
    ELSE DictSet(extremes, bar.symbol, bar.low)

update_trailing(rs, extremes, bar, pos) ==
    IF rs.trailing_stop_points = Nothing THEN extremes
    ELSE IF pos.side = BUY
    THEN IF ~DictHas(extremes, bar.symbol) \/ bar.high > extremes[bar.symbol]
         THEN DictSet(extremes, bar.symbol, bar.high) ELSE extremes
    ELSE IF ~DictHas(extremes, bar.symbol) \/ bar.low < extremes[bar.symbol]
         THEN DictSet(extremes, bar.symbol, bar.low) ELSE extremes

close_order(id, symbol, pos) ==
    [ id |-> id,
      symbol |-> symbol,
      side |-> Opposite(pos.side),
      quantity |-> pos.quantity,
      price_type |-> MARKET,
      price |-> Nothing,
      timestamp |-> Nothing ]

\* StopEngine.on_bar: the trailing extremes afterwards and whether a stop
\* triggered (the close order is then built with a fresh uuid).
StopEngine_on_bar(rs, extremes, bar, position, bars_held) ==
    IF position = None \/ position.quantity = 0
    THEN [ extremes |-> DictPop(extremes, bar.symbol), triggered |-> FALSE ]
    ELSE LET ext == update_trailing(rs, extremes, bar, position)
         IN  [ extremes |-> ext,
               triggered |->
                   \/ check_stop_loss(rs, bar, position)
                   \/ check_take_profit(rs, bar, position)
                   \/ check_trailing_stop(rs, ext, bar, position)
                   \/ check_time_stop(rs, bars_held) ]

\* ----------------------------------------------------------- risk manager
\* The stop-engine loop of RiskManager.on_bar over portfolio.positions.
\* acc.risk is the risk state, acc.orders the stop orders so far, acc.uuid
\* the number of uuids drawn.
RECURSIVE stop_loop(_, _, _, _, _, _)
stop_loop(syms, rs, pm, portfolio, bar, acc) ==
    IF syms = {} THEN acc
    ELSE LET sym == CHOOSE x \in syms : TRUE
             pos == portfolio.positions[sym]
             entry_bar == DictGet(pm.entry_bar_index, sym, 0)
             bars_held == pm.current_bar_index - entry_bar
             r == StopEngine_on_bar(rs, acc.risk.trailing_extremes, bar, pos,
                                    bars_held)
             risk1 == [ acc.risk EXCEPT !.trailing_extremes = r.extremes ]
         IN  stop_loop(syms \ {sym}, rs, pm, portfolio, bar,
               IF r.triggered
               THEN [ risk |-> risk1,
                      orders |-> Append(acc.orders,
                          close_order([ kind |-> "stop", n |-> acc.uuid + 1 ],
                                      bar.symbol, pos)),
                      uuid |-> acc.uuid + 1 ]
               ELSE [ acc EXCEPT !.risk = risk1 ])

RECURSIVE force_close_orders(_, _)
force_close_orders(syms, portfolio) ==
    IF syms = {} THEN <<>>
    ELSE LET sym == CHOOSE x \in syms : TRUE
         IN  <<close_order([ kind |-> "risk_close", n |-> 0 ], sym,
                           portfolio.positions[sym])>>
             \o force_close_orders(syms \ {sym}, portfolio)

\* RiskManager.on_bar: the risk state afterwards, the orders it returns and
\* the number of uuids drawn.
RiskManager_on_bar(risk, rs, pm, bar, uuid) ==
    LET risk0 == IF ~risk.initialized
                 THEN [ RealtimeRiskMonitor_initialize(risk, total_equity(pm))
                          EXCEPT !.initialized = TRUE ]
                 ELSE risk
        portfolio == get_portfolio_state(pm)
        u == RealtimeRiskMonitor_update(risk0, rs, portfolio)
    IN  IF u.warnings # <<>> /\ should_force_close(u.risk)
        THEN [ risk |-> u.risk,
               orders |-> force_close_orders(DOMAIN portfolio.positions, portfolio),
               uuid |-> uuid ]
        ELSE stop_loop(DOMAIN portfolio.positions, rs, pm, portfolio, bar,
                       [ risk |-> u.risk, orders |-> <<>>, uuid |-> uuid ])

\* -------------------------------------------------------- pre-trade check
\* Variant: an order against the position needs margin like any other.
check_margin_for_every_order(order, portfolio) ==
    LET spec == ContractRegistry_get(order.symbol)
        required == spec.initial_margin * order.quantity
    IN  IF required > portfolio.available_margin
        THEN "Insufficient margin"
        ELSE "ok"

check_margin(order, portfolio) ==
    LET spec == ContractRegistry_get(order.symbol)
        required == spec.initial_margin * order.quantity
    IN  IF /\ DictHas(portfolio.positions, order.symbol)
           /\ portfolio.positions[order.symbol].side # order.side
        THEN "ok"
        ELSE IF required > portfolio.available_margin
        THEN "Insufficient margin"
        ELSE "ok"

\* Variant: a position at the limit is turned down too.
check_position_limit_at_limit(rs, order, portfolio) ==
    LET has == DictHas(portfolio.positions, order.symbol)
        current_qty == IF has THEN portfolio.positions[order.symbol].quantity ELSE 0
        new_qty ==
            IF has /\ portfolio.positions[order.symbol].side = order.side
            THEN current_qty + order.quantity
            ELSE IF has
            THEN Abs(current_qty - order.quantity)
            ELSE order.quantity
    IN  IF new_qty >= rs.max_position_contracts
        THEN "Position limit exceeded"
        ELSE "ok"

check_position_limit(rs, order, portfolio) ==
    LET has == DictHas(portfolio.positions, order.symbol)
        current_qty == IF has THEN portfolio.positions[order.symbol].quantity ELSE 0
        new_qty ==
            IF has /\ portfolio.positions[order.symbol].side = order.side
            THEN current_qty + order.quantity
            ELSE IF has
            THEN Abs(current_qty - order.quantity)
            ELSE order.quantity
    IN  IF new_qty > rs.max_position_contracts
        THEN "Position limit exceeded"
        ELSE "ok"

check_daily_loss(risk, rs) ==
    IF 0 - risk.daily_realized_pnl >= rs.max_daily_loss
    THEN "Daily loss limit reached"
    ELSE "ok"

\* PreTradeRiskCheck.check: the first rejection reason, or "ok" for None.
PreTradeRiskCheck_check(risk, rs, order, portfolio) ==
    IF check_margin(order, portfolio) # "ok"
    THEN check_margin(order, portfolio)
    ELSE IF check_position_limit(rs, order, portfolio) # "ok"
    THEN check_position_limit(rs, order, portfolio)
    ELSE check_daily_loss(risk, rs)

\* Variant: the halt is not looked at before the pre-trade checks.
check_pre_trade_halt_ignored(risk, rs, pm, order) ==
    LET portfolio == get_portfolio_state(pm)
        risk1 == [ risk EXCEPT !.daily_realized_pnl = portfolio.realized_pnl ]
    IN  [ risk |-> risk1,
          reason |-> PreTradeRiskCheck_check(risk1, rs, order, portfolio) ]

\* RiskManager.check_pre_trade: the risk state afterwards and the reason.
check_pre_trade(risk, rs, pm, order) ==
    IF risk.trading_halted
    THEN [ risk |-> risk, reason |-> "Trading halted due to risk breach" ]
    ELSE LET portfolio == get_portfolio_state(pm)
             risk1 == [ risk EXCEPT !.daily_realized_pnl = portfolio.realized_pnl ]
         IN  [ risk |-> risk1,
               reason |-> PreTradeRiskCheck_check(risk1, rs, order, portfolio) ]

\* -------------------------------------------------------- strategy context
max_history == 500

\* Variant: a full deque drops the bar appended.
deque_append_drops_newest(bars, bar, maxlen) ==
    IF Len(bars) >= maxlen THEN bars ELSE Append(bars, bar)

\* deque(maxlen=maxlen).append(bar), maxlen >= 1.
deque_append(bars, bar, maxlen) ==
    IF Len(bars) >= maxlen THEN Append(Tail(bars), bar) ELSE Append(bars, bar)

\* StrategyContext.push_bar on the deque(maxlen=max_history) of the engine's
\* context.
push_bar(bars, bar) ==
    deque_append(bars, bar, max_history)

\* float(x): the float of a Decimal or an int, kept apart from its argument.
float(x) == [ float |-> x ]

\* The cache of a new StrategyContext: dirty, no series built.
StrategyContext_cache ==
    [ cache_dirty |-> TRUE, open_s |-> None, high_s |-> None, low_s |-> None,
      close_s |-> None, volume_s |-> None ]

\* Variant: push_bar leaves the cache as it is.
mark_dirty_skipped(cache) ==
    cache

\* push_bar's _cache_dirty = True.
mark_dirty(cache) ==
    [ cache EXCEPT !.cache_dirty = TRUE ]

\* StrategyContext._rebuild_cache over the bars held.
rebuild_cache(cache, bars) ==
    IF ~cache.cache_dirty THEN cache
    ELSE [ cache_dirty |-> FALSE,
           open_s |-> [ i \in DOMAIN bars |-> float(bars[i].open) ],
           high_s |-> [ i \in DOMAIN bars |-> float(bars[i].high) ],
           low_s |-> [ i \in DOMAIN bars |-> float(bars[i].low) ],
           close_s |-> [ i \in DOMAIN bars |-> float(bars[i].close) ],
           volume_s |-> [ i \in DOMAIN bars |-> float(bars[i].volume) ] ]

\* The series properties open, high, low, close and volume: the cache after
\* the rebuild and the series returned.
series(cache, bars, name) ==
    LET c == rebuild_cache(cache, bars)
    IN  [ cache |-> c,
          returned |-> CASE name = "open" -> c.open_s
                         [] name = "high" -> c.high_s
                         [] name = "low" -> c.low_s
                         [] name = "close" -> c.close_s
                         [] name = "volume" -> c.volume_s ]

current_bar(bars) == IF bars = <<>> THEN None ELSE bars[Len(bars)]

\* The order StrategyContext._submit builds; uuid numbers the uuid4 drawn.
context_order(bars, uuid, side, quantity, price) ==
    [ id |-> [ kind |-> "uuid", n |-> uuid ],
      symbol |-> EngineSymbol,
      side |-> side,
      quantity |-> quantity,
      price_type |-> IF price # Nothing THEN LIMIT ELSE MARKET,
      price |-> price,
      timestamp |-> IF bars # <<>> THEN Some(current_bar(bars).datetime)
                    ELSE Nothing ]

\* ------------------------------------------------------------------ inputs
\* The prices bars and limit orders are drawn from, and the order sizes.
Prices == { D(20000), D(20001) }

Quantities == { 1, 2 }

\* The bars a feed can yield: low <= min(open, close), max(open, close) <= high.
Bars ==
    { b \in [ open : Prices, high : Prices, low : Prices, close : Prices ] :
        /\ b.low <= Min(b.open, b.close)
        /\ Max(b.open, b.close) <= b.high }

\* A run's risk settings: the defaults, or a daily loss ceiling near enough
\* to be reached within the run.
TightMaxDailyLoss == 300

RiskSettingsChoices ==
    { DefaultRiskSettings,
      [ DefaultRiskSettings EXCEPT !.max_daily_loss = D(TightMaxDailyLoss) ] }

\* ------------------------------------------------------------------- state
VARIABLES
    pc,             \* where BacktestEngine.run stands
    bar,            \* the bar being processed (None before the first)
    bar_index,      \* run's local bar_index
    pending_orders, \* MatchingEngine._pending_orders
    pm,             \* the PositionManager
    all_fills,      \* BacktestEngine._all_fills
    risk,           \* the RiskManager and its sub-components
    rs,             \* the run's RiskSettings
    ctx_bars,       \* StrategyContext._bars
    ctx_cache,      \* StrategyContext._cache_dirty and the five cached series
    uuid,           \* the number of uuid4 values drawn
    result,         \* the BacktestResult returned (None before)
    filled_orders,  \* history: the order behind each entry of all_fills
    step_log,       \* history: the steps done for the current bar
    bars_fed,       \* history: the number of bars the feed has yielded
    specs,          \* ContractRegistry._specs
    handlers,       \* EventBus._handlers
    runs            \* the results of the runs completed before this one

vars == << pc, bar, bar_index, pending_orders, pm, all_fills, risk, rs,
           ctx_bars, ctx_cache, uuid, result, filled_orders, step_log,
           bars_fed, specs, handlers, runs >>

\* ------------------------------------------------------------------ engine
\* Variant: the matching engine runs after the strategy callback.
StepAfterStrategyBeforeMatch(step) ==
    CASE step = "clock" -> "mtm"
      [] step = "mtm" -> "risk"
      [] step = "risk" -> "push"
      [] step = "push" -> "strategy"
      [] step = "strategy" -> "match"
      [] step = "match" -> "snapshot"
      [] step = "snapshot" -> "feed"

\* Variant: the risk step runs before the mark-to-market.
StepAfterRiskBeforeMark(step) ==
    CASE step = "clock" -> "match"
      [] step = "match" -> "risk"
      [] step = "risk" -> "mtm"
      [] step = "mtm" -> "push"
      [] step = "push" -> "strategy"
      [] step = "strategy" -> "snapshot"
      [] step = "snapshot" -> "feed"

\* The order of the steps of run's loop body; "feed" is the loop head.
StepAfter(step) ==
    CASE step = "clock" -> "match"
      [] step = "match" -> "mtm"
      [] step = "mtm" -> "risk"
      [] step = "risk" -> "push"
      [] step = "push" -> "strategy"
      [] step = "strategy" -> "snapshot"
      [] step = "snapshot" -> "feed"

RECURSIVE SumField(_, _)
SumField(fills, field) ==
    IF fills = <<>> THEN 0 ELSE Head(fills)[field] + SumField(Tail(fills), field)

build_result(total_bars) ==
    [ equity_curve |-> pm.equity_curve,
      trade_records |-> pm.trade_records,
      final_equity |-> total_equity(pm),
      initial_capital |-> D(initial_capital),
      total_bars |-> total_bars,
      total_trades |-> Len(pm.trade_records),
      total_commission |-> SumField(all_fills, "commission"),
      total_tax |-> SumField(all_fills, "tax") ]

Init ==
    /\ pc = "start"
    /\ bar = None
    /\ bar_index = 0
    /\ pending_orders = <<>>
    /\ pm = PositionManager_init
    /\ all_fills = <<>>
    /\ risk = RiskManager_init
    /\ rs \in RiskSettingsChoices
    /\ ctx_bars = <<>>
    /\ ctx_cache = StrategyContext_cache
    /\ uuid = 0
    /\ result = None
    /\ filled_orders = <<>>
    /\ step_log = <<>>
    /\ bars_fed = 0
    /\ specs = ContractRegistry_specs
    /\ handlers = EmptyDict
    /\ runs = <<>>

\* run: strategy.on_init() and bar_index = 0.
RunBegin ==
    /\ pc = "start"
    /\ pc' = "feed"
    /\ bar_index' = 0
    /\ UNCHANGED << bar, pending_orders, pm, all_fills, risk, rs, ctx_bars,
                     ctx_cache, uuid, result, filled_orders, step_log, bars_fed,
                     specs, handlers, runs >>

\* The feed yields a bar; step 1: the clock advances, set_bar_index.
RunNextBar ==
    /\ pc = "feed"
    /\ bars_fed < MaxBars
    /\ \E b \in Bars :
         bar' = [ symbol |-> EngineSymbol, datetime |-> bars_fed,
                  open |-> b.open, high |-> b.high, low |-> b.low,
                  close |-> b.close ]
    /\ bars_fed' = bars_fed + 1
    /\ pm' = set_bar_index(pm, bar_index)
    /\ step_log' = << "clock" >>
    /\ pc' = StepAfter("clock")
    /\ UNCHANGED << bar_index, pending_orders, all_fills, risk, rs, ctx_bars,
                     ctx_cache, uuid, result, filled_orders, specs, handlers,
                     runs >>

\* Step 2: fills = matching.on_bar(bar); _all_fills.extend(fills).
RunMatch ==
    /\ pc = "match"
    /\ LET m == MatchingEngine_on_bar(pending_orders, bar, pm)
       IN  /\ pending_orders' = m.remaining
           /\ pm' = m.pm
           /\ all_fills' = all_fills \o m.fills
           /\ filled_orders' = filled_orders \o m.filled
    /\ step_log' = Append(step_log, "match")
    /\ pc' = StepAfter("match")
    /\ UNCHANGED << bar, bar_index, risk, rs, ctx_bars, ctx_cache, uuid,
                     result, bars_fed, specs, handlers, runs >>

\* Variant: positions are marked at the bar's open.
RunMarkToMarketAtOpen ==
    /\ pc = "mtm"
    /\ pm' = mark_to_market(pm, bar.symbol, bar.open)
    /\ step_log' = Append(step_log, "mtm")
    /\ pc' = StepAfter("mtm")
    /\ UNCHANGED << bar, bar_index, pending_orders, all_fills, risk, rs,
                     ctx_bars, ctx_cache, uuid, result, filled_orders, bars_fed,
                     specs, handlers, runs >>

\* Step 3: position_mgr.mark_to_market(bar.symbol, bar.close).
RunMarkToMarket ==
    /\ pc = "mtm"
    /\ pm' = mark_to_market(pm, bar.symbol, bar.close)
    /\ step_log' = Append(step_log, "mtm")
    /\ pc' = StepAfter("mtm")
    /\ UNCHANGED << bar, bar_index, pending_orders, all_fills, risk, rs,
                     ctx_bars, ctx_cache, uuid, result, filled_orders, bars_fed,
                     specs, handlers, runs >>

\* Variant: the orders of risk_mgr.on_bar pass the pre-trade check first.
RunRiskPreTradeChecked ==
    /\ pc = "risk"
    /\ LET r == RiskManager_on_bar(risk, rs, pm, bar, uuid)
       IN  /\ risk' = r.risk
           /\ uuid' = r.uuid
           /\ pending_orders' = pending_orders \o SelectSeq(r.orders,
                  LAMBDA o : check_pre_trade(r.risk, rs, pm, o).reason = "ok")
    /\ step_log' = Append(step_log, "risk")
    /\ pc' = StepAfter("risk")
    /\ UNCHANGED << bar, bar_index, pm, all_fills, rs, ctx_bars, ctx_cache,
                     result, filled_orders, bars_fed, specs, handlers, runs >>

\* Step 4: risk_mgr.on_bar(bar), its orders submitted to the matching engine.
RunRisk ==
    /\ pc = "risk"
    /\ LET r == RiskManager_on_bar(risk, rs, pm, bar, uuid)
       IN  /\ risk' = r.risk
           /\ uuid' = r.uuid
           /\ pending_orders' = pending_orders \o r.orders
    /\ step_log' = Append(step_log, "risk")
    /\ pc' = StepAfter("risk")
    /\ UNCHANGED << bar, bar_index, pm, all_fills, rs, ctx_bars, ctx_cache,
                     result, filled_orders, bars_fed, specs, handlers, runs >>

\* Step 5: ctx.push_bar(bar); strategy.on_bar(bar) is entered.
RunPushBar ==
    /\ pc = "push"
    /\ ctx_bars' = push_bar(ctx_bars, bar)
    /\ ctx_cache' = mark_dirty(ctx_cache)
    /\ step_log' = Append(step_log, "push")
    /\ pc' = StepAfter("push")
    /\ UNCHANGED << bar, bar_index, pending_orders, pm, all_fills, risk, rs,
                     uuid, result, filled_orders, bars_fed, specs, handlers,
                     runs >>

\* Variant: an order turned down is queued all the same.
on_order_submitted_always_queued(order) ==
    LET c == check_pre_trade(risk, rs, pm, order)
    IN  /\ risk' = c.risk
        /\ pending_orders' = submit_order(pending_orders, order)

\* BacktestEngine._on_order_submitted: the pre-trade check, then the queue.
on_order_submitted(order) ==
    LET c == check_pre_trade(risk, rs, pm, order)
    IN  /\ risk' = c.risk
        /\ pending_orders' = IF c.reason # "ok" THEN pending_orders
                             ELSE submit_order(pending_orders, order)

\* Step 6, within strategy.on_bar: ctx.buy(quantity, price) or ctx.sell.
StrategySubmit ==
    /\ pc = "strategy"
    /\ uuid < MaxOrders
    /\ \E side \in { BUY, SELL }, quantity \in Quantities,
          price \in { Nothing } \cup { Some(p) : p \in Prices } :
         on_order_submitted(
             context_order(ctx_bars, uuid + 1, side, quantity, price))
    /\ uuid' = uuid + 1
    /\ UNCHANGED << pc, bar, bar_index, pm, all_fills, rs, ctx_bars, ctx_cache,
                     result, filled_orders, step_log, bars_fed, specs, handlers,
                     runs >>

\* Step 6, within strategy.on_bar: ctx.close_position().
StrategyClosePosition ==
    /\ pc = "strategy"
    /\ uuid < MaxOrders
    /\ LET pos == get_position(pm, EngineSymbol)
       IN  IF pos = None \/ pos.quantity = 0
           THEN UNCHANGED << risk, pending_orders, uuid >>
           ELSE /\ on_order_submitted(
                       context_order(ctx_bars, uuid + 1, Opposite(pos.side),
                                     pos.quantity, Nothing))
                /\ uuid' = uuid + 1
    /\ UNCHANGED << pc, bar, bar_index, pm, all_fills, rs, ctx_bars, ctx_cache,
                     result, filled_orders, step_log, bars_fed, specs, handlers,
                     runs >>

\* Step 6: strategy.on_bar(bar) returns.
StrategyReturn ==
    /\ pc = "strategy"
    /\ step_log' = Append(step_log, "strategy")
    /\ pc' = StepAfter("strategy")
    /\ UNCHANGED << bar, bar_index, pending_orders, pm, all_fills, risk, rs,
                     ctx_bars, ctx_cache, uuid, result, filled_orders, bars_fed,
                     specs, handlers, runs >>

\* Step 7: position_mgr.snapshot_equity(); bar_index += 1.
RunSnapshot ==
    /\ pc = "snapshot"
    /\ pm' = snapshot_equity(pm)
    /\ bar_index' = bar_index + 1
    /\ step_log' = Append(step_log, "snapshot")
    /\ pc' = StepAfter("snapshot")
    /\ UNCHANGED << bar, pending_orders, all_fills, risk, rs, ctx_bars,
                     ctx_cache, uuid, result, filled_orders, bars_fed, specs,
                     handlers, runs >>

\* Variant: after the feed is exhausted run starts over.
RunEndStartsOver ==
    /\ pc = "feed"
    /\ result' = build_result(bar_index)
    /\ pc' = "start"
    /\ UNCHANGED << bar, bar_index, pending_orders, pm, all_fills, risk, rs,
                     ctx_bars, ctx_cache, uuid, filled_orders, step_log,
                     bars_fed, specs, handlers, runs >>

\* The feed is exhausted: strategy.on_stop() and the result is built.
RunEnd ==
    /\ pc = "feed"
    /\ result' = build_result(bar_index)
    /\ pc' = "done"
    /\ UNCHANGED << bar, bar_index, pending_orders, pm, all_fills, risk, rs,
                     ctx_bars, ctx_cache, uuid, filled_orders, step_log,
                     bars_fed, specs, handlers, runs >>

Next ==
    \/ RunBegin
    \/ RunNextBar
    \/ RunMatch
    \/ RunMarkToMarket
    \/ RunRisk
    \/ RunPushBar
    \/ StrategySubmit
    \/ StrategyClosePosition
    \/ StrategyReturn
    \/ RunSnapshot
    \/ RunEnd

Spec == Init /\ [][Next]_vars

\* ------------------------------------------- the position manager by itself
\* A PositionManager driven through its own interface, as its unit tests
\* drive it: apply_fill, set_bar_index and mark_to_market in any order.
MaxFills == 3

FillQuantities == { 1, 2, 3 }

\* The contracts the fills applied so far amount to.
RECURSIVE SumQuantity(_)
SumQuantity(fills) ==
    IF fills = <<>> THEN 0 ELSE Head(fills).quantity + SumQuantity(Tail(fills))

InitPosition ==
    /\ pc = "position"
    /\ bar = None
    /\ bar_index = 0
    /\ pending_orders = <<>>
    /\ pm = PositionManager_init
    /\ all_fills = <<>>
    /\ risk = RiskManager_init
    /\ rs = DefaultRiskSettings
    /\ ctx_bars = <<>>
    /\ ctx_cache = StrategyContext_cache
    /\ uuid = 0
    /\ result = None
    /\ filled_orders = <<>>
    /\ step_log = <<>>
    /\ bars_fed = 0
    /\ specs = ContractRegistry_specs
    /\ handlers = EmptyDict
    /\ runs = <<>>

\* position_manager.apply_fill(Fill(...)); the fill is stamped with the
\* bar index it is applied in.  The fills stay within the contracts the
\* default position limit admits.
PositionApplyFill ==
    /\ pc = "position"
    /\ Len(all_fills) < MaxFills
    /\ \E side \in { BUY, SELL }, quantity \in FillQuantities, price \in Prices :
         /\ SumQuantity(all_fills) + quantity <= max_position_contracts
         /\ LET order == [ id |-> [ kind |-> "uuid", n |-> Len(all_fills) + 1 ],
                           symbol |-> EngineSymbol,
                           side |-> side,
                           quantity |-> quantity,
                           price_type |-> MARKET,
                           price |-> Nothing,
                           timestamp |-> Nothing ]
                fill == create_fill(order, price, pm.current_bar_index)
            IN  /\ pm' = apply_fill(pm, fill)
                /\ all_fills' = Append(all_fills, fill)
    /\ UNCHANGED << pc, bar, bar_index, pending_orders, risk, rs, ctx_bars,
                     ctx_cache, uuid, result, filled_orders, step_log, bars_fed,
                     specs, handlers, runs >>

\* position_manager.set_bar_index(index) for the next bar.
PositionSetBarIndex ==
    /\ pc = "position"
    /\ pm.current_bar_index < MaxBars
    /\ pm' = set_bar_index(pm, pm.current_bar_index + 1)
    /\ UNCHANGED << pc, bar, bar_index, pending_orders, all_fills, risk, rs,
                     ctx_bars, ctx_cache, uuid, result, filled_orders, step_log,
                     bars_fed, specs, handlers, runs >>

\* position_manager.mark_to_market(symbol, price).
PositionMarkToMarket ==
    /\ pc = "position"
    /\ \E price \in Prices : pm' = mark_to_market(pm, EngineSymbol, price)
    /\ UNCHANGED << pc, bar, bar_index, pending_orders, all_fills, risk, rs,
                     ctx_bars, ctx_cache, uuid, result, filled_orders, step_log,
                     bars_fed, specs, handlers, runs >>

NextPosition ==
    \/ PositionApplyFill
    \/ PositionSetBarIndex
    \/ PositionMarkToMarket

SpecPosition == InitPosition /\ [][NextPosition]_vars

\* ------------------------------------------- a run over a four-bar feed
\* BacktestEngine.run over a HistoricalFeed of the four bars B1..B4 of the
\* round-trip scenario, with default settings and any strategy.
ScenarioFeed ==
    << [ open |-> D(20000), high |-> D(20050), low |-> D(19990), close |-> D(20010) ],
       [ open |-> D(20020), high |-> D(20120), low |-> D(20000), close |-> D(20100) ],
       [ open |-> D(20090), high |-> D(20150), low |-> D(20050), close |-> D(20120) ],
       [ open |-> D(20110), high |-> D(20200), low |-> D(20080), close |-> D(20150) ] >>

InitScenario ==
    /\ pc = "start"
    /\ bar = None
    /\ bar_index = 0
    /\ pending_orders = <<>>
    /\ pm = PositionManager_init
    /\ all_fills = <<>>
    /\ risk = RiskManager_init
    /\ rs = DefaultRiskSettings
    /\ ctx_bars = <<>>
    /\ ctx_cache = StrategyContext_cache
    /\ uuid = 0
    /\ result = None
    /\ filled_orders = <<>>
    /\ step_log = <<>>
    /\ bars_fed = 0
    /\ specs = ContractRegistry_specs
    /\ handlers = EmptyDict
    /\ runs = <<>>

\* The feed yields its next bar; step 1 as in RunNextBar.
RunNextScenarioBar ==
    /\ pc = "feed"
    /\ bars_fed < Len(ScenarioFeed)
    /\ bar' = [ symbol |-> EngineSymbol, datetime |-> bars_fed,
                open |-> ScenarioFeed[bars_fed + 1].open,
                high |-> ScenarioFeed[bars_fed + 1].high,
                low |-> ScenarioFeed[bars_fed + 1].low,
                close |-> ScenarioFeed[bars_fed + 1].close ]
    /\ bars_fed' = bars_fed + 1
    /\ pm' = set_bar_index(pm, bar_index)
    /\ step_log' = << "clock" >>
    /\ pc' = StepAfter("clock")
    /\ UNCHANGED << bar_index, pending_orders, all_fills, risk, rs, ctx_bars,
                     ctx_cache, uuid, result, filled_orders, specs, handlers,
                     runs >>

\* The feed is exhausted after its last bar.
RunScenarioEnd ==
    /\ bars_fed = Len(ScenarioFeed)
    /\ RunEnd

NextScenario ==
    \/ RunBegin
    \/ RunNextScenarioBar
    \/ RunMatch
    \/ RunMarkToMarket
    \/ RunRisk
    \/ RunPushBar
    \/ StrategySubmit
    \/ StrategyClosePosition
    \/ StrategyReturn
    \/ RunSnapshot
    \/ RunScenarioEnd

SpecScenario == InitScenario /\ [][NextScenario]_vars

\* ------------------------------------------- the matching engine by itself
\* A MatchingEngine driven through submit_order, cancel_order and on_bar by
\* any caller, with the engine's fill callback registered. Callers choose the
\* ids of their orders, so two pending orders can carry the same id; the
\* timestamp a caller gives an order tells the submissions apart.
MaxSubmits == 3

MaxCancels == 1

MaxMatchingBars == 2

OrderIds == { [ kind |-> "client", n |-> 1 ], [ kind |-> "client", n |-> 2 ] }

MatchingSymbols == { "TX", "MTX" }

\* The orders a caller submits: MARKET orders of both sides and LIMIT orders
\* that some bars reach and others do not for "TX", a MARKET order for "MTX".
MatchingOrderShapes ==
    { [ symbol |-> "TX", side |-> BUY, price |-> Nothing ],
      [ symbol |-> "TX", side |-> SELL, price |-> Nothing ],
      [ symbol |-> "TX", side |-> BUY, price |-> Some(D(20000)) ],
      [ symbol |-> "TX", side |-> SELL, price |-> Some(D(20001)) ],
      [ symbol |-> "MTX", side |-> BUY, price |-> Nothing ] }

InitMatching ==
    /\ pc = "matching"
    /\ bar = None
    /\ bar_index = 0
    /\ pending_orders = <<>>
    /\ pm = PositionManager_init
    /\ all_fills = <<>>
    /\ risk = RiskManager_init
    /\ rs = DefaultRiskSettings
    /\ ctx_bars = <<>>
    /\ ctx_cache = StrategyContext_cache
    /\ uuid = 0
    /\ result = None
    /\ filled_orders = <<>>
    /\ step_log = <<>>
    /\ bars_fed = 0
    /\ specs = ContractRegistry_specs
    /\ handlers = EmptyDict
    /\ runs = <<>>

\* submit_order(order); uuid counts the submissions.
MatchingSubmit ==
    /\ pc = "matching"
    /\ uuid < MaxSubmits
    /\ \E id \in OrderIds, shape \in MatchingOrderShapes :
         pending_orders' = submit_order(pending_orders,
            [ id |-> id, symbol |-> shape.symbol, side |-> shape.side,
              quantity |-> 1,
              price_type |-> IF shape.price = Nothing THEN MARKET ELSE LIMIT,
              price |-> shape.price, timestamp |-> Some(uuid) ])
    /\ uuid' = uuid + 1
    /\ UNCHANGED << pc, bar, bar_index, pm, all_fills, risk, rs, ctx_bars,
                     ctx_cache, result, filled_orders, step_log, bars_fed,
                     specs, handlers, runs >>

\* cancel_order(order_id); step_log records each call: the id, the value
\* returned and the orders that left the queue.
MatchingCancel ==
    /\ pc = "matching"
    /\ Len(step_log) < MaxCancels
    /\ \E id \in OrderIds :
         LET c == cancel_order(pending_orders, id)
         IN  /\ pending_orders' = c.pending
             /\ step_log' = Append(step_log,
                    [ order_id |-> id, returned |-> c.returned,
                      removed |-> SelectSeq(pending_orders, LAMBDA o :
                          \A k \in DOMAIN c.pending : c.pending[k] # o) ])
    /\ UNCHANGED << pc, bar, bar_index, pm, all_fills, risk, rs, ctx_bars,
                     ctx_cache, uuid, result, filled_orders, bars_fed, specs,
                     handlers, runs >>

\* on_bar(bar) for a bar of either symbol.
MatchingOnBar ==
    /\ pc = "matching"
    /\ bars_fed < MaxMatchingBars
    /\ \E b \in { x \in Bars : x.close = x.open }, symbol \in MatchingSymbols :
         LET next_bar == [ symbol |-> symbol, datetime |-> bars_fed,
                           open |-> b.open, high |-> b.high,
                           low |-> b.low, close |-> b.close ]
             m == MatchingEngine_on_bar(pending_orders, next_bar, pm)
         IN  /\ bar' = next_bar
             /\ pending_orders' = m.remaining
             /\ pm' = m.pm
             /\ all_fills' = all_fills \o m.fills
             /\ filled_orders' = filled_orders \o m.filled
    /\ bars_fed' = bars_fed + 1
    /\ UNCHANGED << pc, bar_index, risk, rs, ctx_bars, ctx_cache, uuid, result,
                     step_log, specs, handlers, runs >>

NextMatching ==
    \/ MatchingSubmit
    \/ MatchingCancel
    \/ MatchingOnBar

SpecMatching == InitMatching /\ [][NextMatching]_vars

\* ------------------------------------------------- runs that reach the risk
\* A run whose risk settings are within reach of its bars: a drawdown limit
\* of 1 % or a stop-loss of one point; the feed can also yield a bar that
\* falls far enough to breach the drawdown limit with one contract held. The
\* strategy trades one contract at a time, at the market or at RiskLimitPrice.
MaxRiskOrders == 3

CrashBar ==
    [ open |-> D(20000), high |-> D(20000), low |-> D(19940), close |-> D(19940) ]

RiskLimitPrice == D(20001)

RiskRunSettings ==
    { [ DefaultRiskSettings EXCEPT !.max_drawdown_pct_percent = 1 ],
      [ DefaultRiskSettings EXCEPT !.stop_loss_points = Some(1) ] }

InitRisk ==
    /\ pc = "start"
    /\ bar = None
    /\ bar_index = 0
    /\ pending_orders = <<>>
    /\ pm = PositionManager_init
    /\ all_fills = <<>>
    /\ risk = RiskManager_init
    /\ rs \in RiskRunSettings
    /\ ctx_bars = <<>>
    /\ ctx_cache = StrategyContext_cache
    /\ uuid = 0
    /\ result = None
    /\ filled_orders = <<>>
    /\ step_log = <<>>
    /\ bars_fed = 0
    /\ specs = ContractRegistry_specs
    /\ handlers = EmptyDict
    /\ runs = <<>>

\* The feed yields a bar; step 1 as in RunNextBar.
RunNextRiskBar ==
    /\ pc = "feed"
    /\ bars_fed < MaxBars
    /\ \E b \in Bars \cup { CrashBar } :
         bar' = [ symbol |-> EngineSymbol, datetime |-> bars_fed,
                  open |-> b.open, high |-> b.high, low |-> b.low,
                  close |-> b.close ]
    /\ bars_fed' = bars_fed + 1
    /\ pm' = set_bar_index(pm, bar_index)
    /\ step_log' = << "clock" >>
    /\ pc' = StepAfter("clock")
    /\ UNCHANGED << bar_index, pending_orders, all_fills, risk, rs, ctx_bars,
                     ctx_cache, uuid, result, filled_orders, specs, handlers,
                     runs >>

\* Step 6, within strategy.on_bar: ctx.buy(1, price) or ctx.sell(1, price).
RiskRunStrategySubmit ==
    /\ pc = "strategy"
    /\ uuid < MaxRiskOrders
    /\ \E side \in { BUY, SELL },
          price \in { Nothing, Some(RiskLimitPrice) } :
         on_order_submitted(context_order(ctx_bars, uuid + 1, side, 1, price))
    /\ uuid' = uuid + 1
    /\ UNCHANGED << pc, bar, bar_index, pm, all_fills, rs, ctx_bars, ctx_cache,
                     result, filled_orders, step_log, bars_fed, specs, handlers,
                     runs >>

NextRisk ==
    \/ RunBegin
    \/ RunNextRiskBar
    \/ RunMatch
    \/ RunMarkToMarket
    \/ RunRisk
    \/ RunPushBar
    \/ RiskRunStrategySubmit
    \/ StrategyReturn
    \/ RunSnapshot
    \/ RunEnd

SpecRisk == InitRisk /\ [][NextRisk]_vars

\* ------------------------------------------- the pre-trade check by itself
\* A RiskManager over a PositionManager that has seen some fills and marks,
\* asked about orders of either symbol: check_pre_trade (which hands the
\* order to PreTradeRiskCheck.check) and LimitChecker.check_position_limit.
\* The account is small or large, the position limit small and the daily
\* loss ceiling near, so that each check can turn an order down.  A behaviour
\* builds a portfolio and ends with the one call it is asked about.
MaxPreTradeFills == 2

SmallPositionLimit == 2

SmallCapital == 200000

PreTradeQuantities == { 1, 2, 3, 4 }

PreTradeSettings ==
    [ DefaultRiskSettings EXCEPT !.max_position_contracts = SmallPositionLimit,
                                 !.max_daily_loss = D(TightMaxDailyLoss) ]

InitPreTrade ==
    /\ pc = "pretrade"
    /\ bar = None
    /\ bar_index = 0
    /\ pending_orders = <<>>
    /\ pm \in { [ PositionManager_init EXCEPT !.cash = D(capital) ] :
                  capital \in { SmallCapital, initial_capital } }
    /\ all_fills = <<>>
    /\ risk = RiskManager_init
    /\ rs = PreTradeSettings
    /\ ctx_bars = <<>>
    /\ ctx_cache = StrategyContext_cache
    /\ uuid = 0
    /\ result = None
    /\ filled_orders = <<>>
    /\ step_log = <<>>
    /\ bars_fed = 0
    /\ specs = ContractRegistry_specs
    /\ handlers = EmptyDict
    /\ runs = <<>>

\* position_manager.apply_fill(Fill(...)) for the engine's symbol.
PreTradeApplyFill ==
    /\ pc = "pretrade"
    /\ result = None
    /\ Len(all_fills) < MaxPreTradeFills
    /\ \E side \in { BUY, SELL }, quantity \in Quantities, price \in Prices :
         LET order == [ id |-> [ kind |-> "uuid", n |-> Len(all_fills) + 1 ],
                        symbol |-> EngineSymbol,
                        side |-> side,
                        quantity |-> quantity,
                        price_type |-> MARKET,
                        price |-> Nothing,
                        timestamp |-> Nothing ]
             fill == create_fill(order, price, pm.current_bar_index)
         IN  /\ pm' = apply_fill(pm, fill)
             /\ all_fills' = Append(all_fills, fill)
    /\ UNCHANGED << pc, bar, bar_index, pending_orders, risk, rs, ctx_bars,
                     ctx_cache, uuid, result, filled_orders, step_log, bars_fed,
                     specs, handlers, runs >>

\* position_manager.mark_to_market(symbol, price).
PreTradeMarkToMarket ==
    /\ pc = "pretrade"
    /\ result = None
    /\ \E price \in Prices : pm' = mark_to_market(pm, EngineSymbol, price)
    /\ UNCHANGED << pc, bar, bar_index, pending_orders, all_fills, risk, rs,
                     ctx_bars, ctx_cache, uuid, result, filled_orders, step_log,
                     bars_fed, specs, handlers, runs >>

\* The orders the checks are asked about.
PreTradeOrders ==
    { [ id |-> [ kind |-> "uuid", n |-> 0 ],
        symbol |-> symbol,
        side |-> side,
        quantity |-> quantity,
        price_type |-> MARKET,
        price |-> Nothing,
        timestamp |-> Nothing ] :
      symbol \in { "TX", "MTX" }, side \in { BUY, SELL },
      quantity \in PreTradeQuantities }

\* risk_mgr.check_pre_trade(order); result holds the call: the order, the
\* portfolio it was checked against and the reason returned.
PreTradeCheck ==
    /\ pc = "pretrade"
    /\ result = None
    /\ \E order \in PreTradeOrders :
         LET c == check_pre_trade(risk, rs, pm, order)
         IN  /\ risk' = c.risk
             /\ result' = [ call |-> "check",
                            order |-> order,
                            portfolio |-> get_portfolio_state(pm),
                            daily_realized_pnl |-> c.risk.daily_realized_pnl,
                            reason |-> c.reason ]
    /\ UNCHANGED << pc, bar, bar_index, pending_orders, pm, all_fills, rs,
                     ctx_bars, ctx_cache, uuid, filled_orders, step_log,
                     bars_fed, specs, handlers, runs >>

\* limit_checker.check_position_limit(order, portfolio); result holds the call.
PreTradeLimitCheck ==
    /\ pc = "pretrade"
    /\ result = None
    /\ \E order \in PreTradeOrders :
         result' = [ call |-> "check_position_limit",
                     order |-> order,
                     portfolio |-> get_portfolio_state(pm),
                     daily_realized_pnl |-> risk.daily_realized_pnl,
                     reason |-> check_position_limit(rs, order,
                                                     get_portfolio_state(pm)) ]
    /\ UNCHANGED << pc, bar, bar_index, pending_orders, pm, all_fills, risk,
                     rs, ctx_bars, ctx_cache, uuid, filled_orders, step_log,
                     bars_fed, specs, handlers, runs >>

NextPreTrade ==
    \/ PreTradeApplyFill
    \/ PreTradeMarkToMarket
    \/ PreTradeCheck
    \/ PreTradeLimitCheck

SpecPreTrade == InitPreTrade /\ [][NextPreTrade]_vars

\* ---------------------------------------------- the stop engine by itself
\* A StopEngine driven through on_bar and reset as its unit tests drive it,
\* with no stop, one stop or all four stops configured at one point or one
\* bar.  result holds the last on_bar call: its arguments, the stored
\* extremes before it and the order returned.
MaxStopCalls == 2

StopConfigs ==
    { DefaultRiskSettings,
      [ DefaultRiskSettings EXCEPT !.stop_loss_points = Some(1) ],
      [ DefaultRiskSettings EXCEPT !.take_profit_points = Some(1) ],
      [ DefaultRiskSettings EXCEPT !.trailing_stop_points = Some(1) ],
      [ DefaultRiskSettings EXCEPT !.time_stop_bars = Some(1) ],
      [ DefaultRiskSettings EXCEPT !.stop_loss_points = Some(1),
                                   !.take_profit_points = Some(1),
                                   !.trailing_stop_points = Some(1),
                                   !.time_stop_bars = Some(1) ] }

\* The position arguments: no position, or a position of 0, 1 or 2 contracts.
StopPositions ==
    { None } \cup
    { [ symbol |-> EngineSymbol, side |-> side, quantity |-> quantity,
        avg_price |-> price, unrealized_pnl |-> 0,
        margin_required |-> D(TX_INITIAL_MARGIN) * quantity ] :
      side \in { BUY, SELL }, quantity \in { 0, 1, 2 }, price \in Prices }

InitStops ==
    /\ pc = "stops"
    /\ bar = None
    /\ bar_index = 0
    /\ pending_orders = <<>>
    /\ pm = PositionManager_init
    /\ all_fills = <<>>
    /\ risk = RiskManager_init
    /\ rs \in StopConfigs
    /\ ctx_bars = <<>>
    /\ ctx_cache = StrategyContext_cache
    /\ uuid = 0
    /\ result = None
    /\ filled_orders = <<>>
    /\ step_log = <<>>
    /\ bars_fed = 0
    /\ specs = ContractRegistry_specs
    /\ handlers = EmptyDict
    /\ runs = <<>>

\* stop_engine.on_bar(bar, position, bars_held).
StopOnBar ==
    /\ pc = "stops"
    /\ bars_fed < MaxStopCalls
    /\ \E b \in Bars, position \in StopPositions, bars_held \in { 0, 1, 2 } :
         LET next_bar == [ symbol |-> EngineSymbol, datetime |-> bars_fed,
                           open |-> b.open, high |-> b.high,
                           low |-> b.low, close |-> b.close ]
             r == StopEngine_on_bar(rs, risk.trailing_extremes, next_bar,
                                    position, bars_held)
         IN  /\ bar' = next_bar
             /\ risk' = [ risk EXCEPT !.trailing_extremes = r.extremes ]
             /\ uuid' = IF r.triggered THEN uuid + 1 ELSE uuid
             /\ result' = [ call |-> "on_bar",
                            position |-> position,
                            bars_held |-> bars_held,
                            extremes |-> risk.trailing_extremes,
                            order |-> IF r.triggered
                                      THEN close_order(
                                             [ kind |-> "stop", n |-> uuid + 1 ],
                                             next_bar.symbol, position)
                                      ELSE None ]
    /\ bars_fed' = bars_fed + 1
    /\ UNCHANGED << pc, bar_index, pending_orders, pm, all_fills, rs, ctx_bars,
                     ctx_cache, filled_orders, step_log, specs, handlers,
                     runs >>

\* stop_engine.reset(symbol).
StopReset ==
    /\ pc = "stops"
    /\ risk' = [ risk EXCEPT
                   !.trailing_extremes = DictPop(risk.trailing_extremes, EngineSymbol) ]
    /\ UNCHANGED << pc, bar, bar_index, pending_orders, pm, all_fills, rs,
                     ctx_bars, ctx_cache, uuid, result, filled_orders, step_log,
                     bars_fed, specs, handlers, runs >>

NextStops ==
    \/ StopOnBar
    \/ StopReset

SpecStops == InitStops /\ [][NextStops]_vars

\* ------------------------------------------- runs with a trailing stop set
\* The engine run of Spec under a trailing stop of one point.
TrailingSettings ==
    [ DefaultRiskSettings EXCEPT !.trailing_stop_points = Some(1) ]

InitTrailing ==
    /\ pc = "start"
    /\ bar = None
    /\ bar_index = 0
    /\ pending_orders = <<>>
    /\ pm = PositionManager_init
    /\ all_fills = <<>>
    /\ risk = RiskManager_init
    /\ rs = TrailingSettings
    /\ ctx_bars = <<>>
    /\ ctx_cache = StrategyContext_cache
    /\ uuid = 0
    /\ result = None
    /\ filled_orders = <<>>
    /\ step_log = <<>>
    /\ bars_fed = 0
    /\ specs = ContractRegistry_specs
    /\ handlers = EmptyDict
    /\ runs = <<>>

SpecTrailing == InitTrailing /\ [][Next]_vars

\* --------------------------------------------- the strategy context's bars
\* A StrategyContext with max_history = SmallMaxHistory driven through
\* push_bar and the five series properties, next to the engine's own context
\* (max_history 500) within a run over the four-bar feed.  For the context
\* driven by itself step_log holds the calls made, each push_bar with its
\* bar and each read with the series returned.
SmallMaxHistory == 2

MaxContextCalls == 4

ContextBars ==
    { [ open |-> D(20000), high |-> D(20001), low |-> D(20000), close |-> D(20001),
        volume |-> 100 ],
      [ open |-> D(20001), high |-> D(20001), low |-> D(20000), close |-> D(20000),
        volume |-> 200 ] }

SeriesNames == { "open", "high", "low", "close", "volume" }

InitContext ==
    /\ pc = "context"
    /\ bar = None
    /\ bar_index = 0
    /\ pending_orders = <<>>
    /\ pm = PositionManager_init
    /\ all_fills = <<>>
    /\ risk = RiskManager_init
    /\ rs = DefaultRiskSettings
    /\ ctx_bars = <<>>
    /\ ctx_cache = StrategyContext_cache
    /\ uuid = 0
    /\ result = None
    /\ filled_orders = <<>>
    /\ step_log = <<>>
    /\ bars_fed = 0
    /\ specs = ContractRegistry_specs
    /\ handlers = EmptyDict
    /\ runs = <<>>

\* ctx.push_bar(bar).
ContextPushBar ==
    /\ pc = "context"
    /\ Len(step_log) < MaxContextCalls
    /\ \E b \in ContextBars :
         LET next_bar == [ symbol |-> EngineSymbol, datetime |-> bars_fed,
                           open |-> b.open, high |-> b.high, low |-> b.low,
                           close |-> b.close, volume |-> b.volume ]
         IN  /\ bar' = next_bar
             /\ ctx_bars' = deque_append(ctx_bars, next_bar, SmallMaxHistory)
             /\ ctx_cache' = mark_dirty(ctx_cache)
             /\ step_log' = Append(step_log,
                                   [ call |-> "push_bar", bar |-> next_bar ])
    /\ bars_fed' = bars_fed + 1
    /\ UNCHANGED << pc, bar_index, pending_orders, pm, all_fills, risk, rs,
                     uuid, result, filled_orders, specs, handlers, runs >>

\* A read of ctx.open, ctx.high, ctx.low, ctx.close or ctx.volume.
ContextRead ==
    /\ pc = "context"
    /\ Len(step_log) < MaxContextCalls
    /\ \E name \in SeriesNames :
         LET r == series(ctx_cache, ctx_bars, name)
         IN  /\ ctx_cache' = r.cache
             /\ step_log' = Append(step_log,
                                   [ call |-> name, returned |-> r.returned ])
    /\ UNCHANGED << pc, bar, bar_index, pending_orders, pm, all_fills, risk,
                     rs, ctx_bars, uuid, result, filled_orders, bars_fed, specs,
                     handlers, runs >>

NextContext ==
    \/ ContextPushBar
    \/ ContextRead
    \/ NextScenario

SpecContext == (InitContext \/ InitScenario) /\ [][NextContext]_vars

\* ------------------------------------------ what a submission answers with
\* The engine run of Spec under a position limit of SmallPositionLimit, its
\* strategy buying or selling two or three contracts at the market and
\* calling close_position.  Each call of the context is entered into step_log
\* with the orders handed to the order callback, the events the engine
\* published on its bus and the value returned to the strategy.
MaxStepLog == 7

SubmissionQuantities == { 2, 3 }

SubmissionSettings ==
    [ DefaultRiskSettings EXCEPT !.max_position_contracts = SmallPositionLimit ]

InitSubmission ==
    /\ pc = "start"
    /\ bar = None
    /\ bar_index = 0
    /\ pending_orders = <<>>
    /\ pm = PositionManager_init
    /\ all_fills = <<>>
    /\ risk = RiskManager_init
    /\ rs = SubmissionSettings
    /\ ctx_bars = <<>>
    /\ ctx_cache = StrategyContext_cache
    /\ uuid = 0
    /\ result = None
    /\ filled_orders = <<>>
    /\ step_log = <<>>
    /\ bars_fed = 0
    /\ specs = ContractRegistry_specs
    /\ handlers = EmptyDict
    /\ runs = <<>>

\* The events _on_order_submitted publishes for an order given the answer of
\* the pre-trade check.
published_events(order, reason) ==
    IF reason # "ok"
    THEN << [ type |-> "ORDER_REJECTED",
              data |-> [ order |-> order, reason |-> reason ] ] >>
    ELSE << [ type |-> "ORDER_SUBMITTED", data |-> order ] >>

\* Variant: close_position closes one contract.
close_position_order_one_contract(bars, n, pos) ==
    context_order(bars, n, Opposite(pos.side), 1, Nothing)

\* The order close_position submits for the position pos.
close_position_order(bars, n, pos) ==
    context_order(bars, n, Opposite(pos.side), pos.quantity, Nothing)

\* Step 6, within strategy.on_bar: ctx.buy(quantity) or ctx.sell(quantity),
\* through _submit and the engine's _on_order_submitted.
ContextSubmit ==
    /\ pc = "strategy"
    /\ uuid < MaxOrders
    /\ Len(step_log) < MaxStepLog
    /\ \E side \in { BUY, SELL }, quantity \in SubmissionQuantities :
         LET order == context_order(ctx_bars, uuid + 1, side, quantity, Nothing)
         IN  /\ on_order_submitted(order)
             /\ step_log' = Append(step_log,
                    [ call |-> IF side = BUY THEN "buy" ELSE "sell",
                      callback |-> << order >>,
                      published |-> published_events(order,
                          check_pre_trade(risk, rs, pm, order).reason),
                      returned |-> order.id ])
    /\ uuid' = uuid + 1
    /\ UNCHANGED << pc, bar, bar_index, pm, all_fills, rs, ctx_bars, ctx_cache,
                     result, filled_orders, bars_fed, specs, handlers, runs >>

\* Step 6, within strategy.on_bar: ctx.close_position(), through _submit and
\* the engine's _on_order_submitted when there is a position.
ContextClosePosition ==
    /\ pc = "strategy"
    /\ uuid < MaxOrders
    /\ Len(step_log) < MaxStepLog
    /\ LET pos == get_position(pm, EngineSymbol)
       IN  IF pos = None \/ pos.quantity = 0
           THEN /\ step_log' = Append(step_log,
                       [ call |-> "close_position", callback |-> <<>>,
                         published |-> <<>>, returned |-> None ])
                /\ UNCHANGED << risk, pending_orders, uuid >>
           ELSE LET order == close_position_order(ctx_bars, uuid + 1, pos)
                IN  /\ on_order_submitted(order)
                    /\ step_log' = Append(step_log,
                           [ call |-> "close_position",
                             callback |-> << order >>,
                             published |-> published_events(order,
                                 check_pre_trade(risk, rs, pm, order).reason),
                             returned |-> order.id ])
                    /\ uuid' = uuid + 1
    /\ UNCHANGED << pc, bar, bar_index, pm, all_fills, rs, ctx_bars, ctx_cache,
                     result, filled_orders, bars_fed, specs, handlers, runs >>

NextSubmission ==
    \/ RunBegin
    \/ RunNextBar
    \/ RunMatch
    \/ RunMarkToMarket
    \/ RunRisk
    \/ RunPushBar
    \/ ContextSubmit
    \/ ContextClosePosition
    \/ StrategyReturn
    \/ RunSnapshot
    \/ RunEnd

SpecSubmission == InitSubmission /\ [][NextSubmission]_vars

\* ------------------------------------------------------ runs that must end
\* run over a HistoricalFeed of the first bars of ScenarioFeed, none to all
\* four of them, where run keeps going: the for loop takes the next bar or
\* leaves, every step of the loop body is taken and the strategy callback
\* returns.
NextTermination ==
    \/ NextScenario
    \/ RunEnd

SpecTermination ==
    InitScenario /\ [][NextTermination]_vars /\ WF_vars(NextTermination)

\* ------------------------------------------------ the contract registry
\* A ContractRegistry driven through register and get.  Symbols are strings;
\* chars gives the characters of the symbols in use, for startswith.
MaxRegistered == 2

MaxSymbolLen == 6

chars(symbol) ==
    CASE symbol = "" -> <<>>
      [] symbol = "T" -> << "T" >>
      [] symbol = "TX" -> << "T", "X" >>
      [] symbol = "MTX" -> << "M", "T", "X" >>
      [] symbol = "TXF" -> << "T", "X", "F" >>
      [] symbol = "TXO" -> << "T", "X", "O" >>
      [] symbol = "XTX" -> << "X", "T", "X" >>
      [] symbol = "MT" -> << "M", "T" >>
      [] symbol = "TXFG5" -> << "T", "X", "F", "G", "5" >>
      [] symbol = "MTXFG5" -> << "M", "T", "X", "F", "G", "5" >>

\* symbol.startswith(prefix).
startswith(symbol, prefix) ==
    /\ Len(chars(prefix)) <= Len(chars(symbol))
    /\ SubSeq(chars(symbol), 1, Len(chars(prefix))) = chars(prefix)

\* Variant: the shortest registered prefix is taken.
RECURSIVE resolve_shortest_first(_, _, _)
resolve_shortest_first(registered, symbol, n) ==
    LET shortest == { p \in DOMAIN registered :
                        \A q \in DOMAIN registered :
                            Len(chars(p)) <= Len(chars(q)) }
    IN  IF DOMAIN registered = {} THEN symbol
        ELSE IF \E p \in shortest : startswith(symbol, p)
        THEN CHOOSE p \in shortest : startswith(symbol, p)
        ELSE resolve_shortest_first(
                 [ q \in DOMAIN registered \ shortest |-> registered[q] ],
                 symbol, n)

\* ContractRegistry._resolve_base_symbol: the keys by decreasing length, n
\* being the length reached; the first that symbol starts with.
RECURSIVE resolve_base_symbol(_, _, _)
resolve_base_symbol(registered, symbol, n) ==
    LET keys == { p \in DOMAIN registered : Len(chars(p)) = n }
    IN  IF \E p \in keys : startswith(symbol, p)
        THEN CHOOSE p \in keys : startswith(symbol, p)
        ELSE IF n = 0 THEN symbol
        ELSE resolve_base_symbol(registered, symbol, n - 1)

\* ContractRegistry.get: the spec returned, or the error raised.
get(registered, symbol) ==
    LET base == resolve_base_symbol(registered, symbol, MaxSymbolLen)
    IN  IF base \in DOMAIN registered
        THEN [ returned |-> registered[base], raised |-> None ]
        ELSE [ returned |-> None, raised |-> "ContractNotFoundError" ]

\* ContractRegistry.register.
register(registered, spec) == DictSet(registered, spec.symbol, spec)

\* The custom specs registered: a contract of its own multiplier under a
\* base symbol that is new or is TX again.
CustomSpecs ==
    { [ TX_SPEC EXCEPT !.symbol = base, !.multiplier = 10 ] :
        base \in { "", "T", "TX", "TXF", "TXO", "MT" } }

LookupSymbols == { "TX", "MTX", "TXFG5", "MTXFG5", "TXO", "XTX", "T", "MT" }

InitRegistry ==
    /\ pc = "registry"
    /\ bar = None
    /\ bar_index = 0
    /\ pending_orders = <<>>
    /\ pm = PositionManager_init
    /\ all_fills = <<>>
    /\ risk = RiskManager_init
    /\ rs = DefaultRiskSettings
    /\ ctx_bars = <<>>
    /\ ctx_cache = StrategyContext_cache
    /\ uuid = 0
    /\ result = None
    /\ filled_orders = <<>>
    /\ step_log = <<>>
    /\ bars_fed = 0
    /\ specs = ContractRegistry_specs
    /\ handlers = EmptyDict
    /\ runs = <<>>

\* registry.register(spec).
RegistryRegister ==
    /\ pc = "registry"
    /\ uuid < MaxRegistered
    /\ \E spec \in CustomSpecs : specs' = register(specs, spec)
    /\ uuid' = uuid + 1
    /\ UNCHANGED << pc, bar, bar_index, pending_orders, pm, all_fills, risk,
                     rs, ctx_bars, ctx_cache, result, filled_orders, step_log,
                     bars_fed, handlers, runs >>

\* registry.get(symbol); result holds the call and its outcome.
RegistryGet ==
    /\ pc = "registry"
    /\ \E symbol \in LookupSymbols :
         result' = [ call |-> "get", symbol |-> symbol,
                     outcome |-> get(specs, symbol) ]
    /\ UNCHANGED << pc, bar, bar_index, pending_orders, pm, all_fills, risk,
                     rs, ctx_bars, ctx_cache, uuid, filled_orders, step_log,
                     bars_fed, specs, handlers, runs >>

NextRegistry ==
    \/ RegistryRegister
    \/ RegistryGet

SpecRegistry == InitRegistry /\ [][NextRegistry]_vars

\* ------------------------------------------------------------ the event bus
\* An EventBus driven through subscribe, unsubscribe, publish and clear.  A
\* handler records the event it is called with; a handler with once set then
\* unsubscribes itself from the event's type.  handlers maps an event type
\* to its list of handlers; step_log holds every handler call made, result
\* the last publish with the calls it made.
MaxSubscribes == 3

MaxPublishes == 2

EventTypes == { "BAR", "TICK" }

EventData == { "d1", "d2" }

EventHandlers == [ name : { "h1", "h2" }, once : BOOLEAN ]

\* list.remove(x): the list without the first x.
RECURSIVE list_remove(_, _)
list_remove(list, x) ==
    IF list = <<>> THEN <<>>
    ELSE IF Head(list) = x THEN Tail(list)
    ELSE << Head(list) >> \o list_remove(Tail(list), x)

\* EventBus.subscribe.
subscribe(registered, event_type, handler) ==
    DictSet(registered, event_type,
            Append(DictGet(registered, event_type, <<>>), handler))

\* EventBus.unsubscribe.
unsubscribe(registered, event_type, handler) ==
    DictSet(registered, event_type,
            list_remove(DictGet(registered, event_type, <<>>), handler))

\* The call handler(event): the subscriptions and the calls afterwards.
call_handler(registered, calls, handler, event) ==
    [ handlers |-> IF handler.once
                   THEN unsubscribe(registered, event.event_type, handler)
                   ELSE registered,
      calls |-> Append(calls, [ handler |-> handler, event |-> event ]) ]

\* The for loop of publish from position i of the list of event_type, the
\* list being read anew at every turn as the list iterator does.
RECURSIVE dispatch(_, _, _, _)
dispatch(registered, calls, event, i) ==
    LET list == DictGet(registered, event.event_type, <<>>)
    IN  IF i > Len(list)
        THEN [ handlers |-> registered, calls |-> calls ]
        ELSE LET c == call_handler(registered, calls, list[i], event)
             IN  dispatch(c.handlers, c.calls, event, i + 1)

\* EventBus.publish.
publish(registered, event_type, data) ==
    dispatch(registered, <<>>, [ event_type |-> event_type, data |-> data ], 1)

InitEvents ==
    /\ pc = "events"
    /\ bar = None
    /\ bar_index = 0
    /\ pending_orders = <<>>
    /\ pm = PositionManager_init
    /\ all_fills = <<>>
    /\ risk = RiskManager_init
    /\ rs = DefaultRiskSettings
    /\ ctx_bars = <<>>
    /\ ctx_cache = StrategyContext_cache
    /\ uuid = 0
    /\ result = None
    /\ filled_orders = <<>>
    /\ step_log = <<>>
    /\ bars_fed = 0
    /\ specs = ContractRegistry_specs
    /\ handlers = EmptyDict
    /\ runs = <<>>

\* bus.subscribe(event_type, handler).
EventSubscribe ==
    /\ pc = "events"
    /\ uuid < MaxSubscribes
    /\ \E event_type \in EventTypes, handler \in EventHandlers :
         handlers' = subscribe(handlers, event_type, handler)
    /\ uuid' = uuid + 1
    /\ UNCHANGED << pc, bar, bar_index, pending_orders, pm, all_fills, risk,
                     rs, ctx_bars, ctx_cache, result, filled_orders, step_log,
                     bars_fed, specs, runs >>

\* bus.unsubscribe(event_type, handler).
EventUnsubscribe ==
    /\ pc = "events"
    /\ \E event_type \in EventTypes, handler \in EventHandlers :
         handlers' = unsubscribe(handlers, event_type, handler)
    /\ UNCHANGED << pc, bar, bar_index, pending_orders, pm, all_fills, risk,
                     rs, ctx_bars, ctx_cache, uuid, result, filled_orders,
                     step_log, bars_fed, specs, runs >>

\* bus.publish(event_type, data).
EventPublish ==
    /\ pc = "events"
    /\ bars_fed < MaxPublishes
    /\ \E event_type \in EventTypes, data \in EventData :
         LET p == publish(handlers, event_type, data)
         IN  /\ handlers' = p.handlers
             /\ step_log' = step_log \o p.calls
             /\ result' = [ call |-> "publish",
                            event_type |-> event_type,
                            data |-> data,
                            calls |-> p.calls ]
    /\ bars_fed' = bars_fed + 1
    /\ UNCHANGED << pc, bar, bar_index, pending_orders, pm, all_fills, risk,
                     rs, ctx_bars, ctx_cache, uuid, filled_orders, specs,
                     runs >>

\* bus.clear().
EventClear ==
    /\ pc = "events"
    /\ handlers' = EmptyDict
    /\ UNCHANGED << pc, bar, bar_index, pending_orders, pm, all_fills, risk,
                     rs, ctx_bars, ctx_cache, uuid, result, filled_orders,
                     step_log, bars_fed, specs, runs >>

NextEvents ==
    \/ EventSubscribe
    \/ EventUnsubscribe
    \/ EventPublish
    \/ EventClear

SpecEvents == InitEvents /\ [][NextEvents]_vars

\* ------------------------------------------ a second run on the same engine
\* run() called again on the engine whose first run has returned. The caller
\* keeps the first result (runs); the HistoricalFeed is iterated from its
\* first bar again; the matching engine, the position manager, the risk
\* manager, the context and _all_fills are the objects the constructor made,
\* as the first run left them.
RunAgain ==
    /\ pc = "done"
    /\ runs = <<>>
    /\ runs' = Append(runs, result)
    /\ result' = None
    /\ bars_fed' = 0
    /\ pc' = "start"
    /\ UNCHANGED << bar, bar_index, pending_orders, pm, all_fills, risk, rs,
                     ctx_bars, ctx_cache, uuid, filled_orders, step_log, specs,
                     handlers >>

NextRerun ==
    \/ NextScenario
    \/ RunAgain

SpecRerun == InitScenario /\ [][NextRerun]_vars

\* ------------------------------------------------------------------ claims
IsPrefix(s, t) == Len(s) <= Len(t) /\ \A i \in 1..Len(s) : s[i] = t[i]

\* The positions in all_fills' of the fills this step produced.
NewFillIndexes == (Len(all_fills) + 1)..Len(all_fills')

\* C1: an order the strategy submitted during strategy.on_bar of bar N (its
\* timestamp is bar N's datetime) is filled, if at all, by the on_bar of a
\* later bar: every fill of a strategy order, MARKET or LIMIT, carries the
\* datetime of a bar after N.
NoFillInSubmissionBar ==
    \A i \in DOMAIN all_fills :
        filled_orders[i].id.kind = "uuid" =>
            all_fills[i].timestamp >= filled_orders[i].timestamp[1] + 1

\* A strategy MARKET order and a strategy LIMIT order, each filled by the
\* bar right after the one it was submitted in.
NoFillInSubmissionBarWitness ==
    /\ \E i \in DOMAIN all_fills :
         /\ filled_orders[i].id.kind = "uuid"
         /\ filled_orders[i].price_type = MARKET
         /\ all_fills[i].timestamp = filled_orders[i].timestamp[1] + 1
    /\ \E i \in DOMAIN all_fills :
         /\ filled_orders[i].id.kind = "uuid"
         /\ filled_orders[i].price_type = LIMIT
         /\ all_fills[i].timestamp = filled_orders[i].timestamp[1] + 1

\* The steps of one bar, in the order C2 states.
EngineSteps ==
    << "clock", "match", "mtm", "risk", "push", "strategy", "snapshot" >>

\* C2: for every bar the steps run in the order clock, matching,
\* mark-to-market, risk, push_bar, strategy.on_bar, snapshot_equity, each
\* once and none of another bar in between: the steps done for the current
\* bar are always a prefix of that order, the step the run stands at is the
\* next one of it, a new bar starts only after all seven, and the context's
\* history and the equity curve have one entry per bar that has passed
\* push_bar and snapshot_equity.
StepsInOrder ==
    /\ IsPrefix(step_log, EngineSteps)
    /\ pc = "start" => step_log = <<>>
    /\ pc \in { "feed", "done" } =>
         step_log = IF bars_fed = 0 THEN <<>> ELSE EngineSteps
    /\ pc \notin { "start", "feed", "done" } =>
         /\ Len(step_log) < Len(EngineSteps)
         /\ pc = EngineSteps[Len(step_log) + 1]
    /\ Len(ctx_bars) =
         IF bars_fed = 0 \/ Len(step_log) >= 5 THEN bars_fed ELSE bars_fed - 1
    /\ Len(pm.equity_curve) =
         IF bars_fed = 0 \/ Len(step_log) >= 7 THEN bars_fed ELSE bars_fed - 1
    /\ pm.current_bar_index = IF bars_fed = 0 THEN 0 ELSE bars_fed - 1

\* The second bar of a run has gone through all seven steps.
StepsInOrderWitness ==
    /\ pc = "feed"
    /\ bars_fed = 2
    /\ step_log = EngineSteps
    /\ all_fills # <<>>

\* C3: the result's equity curve has one entry per bar: its length is
\* total_bars, which is the number of bars the feed yielded.
ResultCurveLength ==
    result # None =>
        /\ Len(result.equity_curve) = result.total_bars
        /\ result.total_bars = bars_fed

\* A result of a run over at least two bars, with a position taken.
ResultCurveLengthWitness ==
    /\ result # None
    /\ result.total_bars >= 2
    /\ OpenSymbols(pm) # {}

\* C4: after bar i, equity_curve[i] is the cash plus, for every open
\* position, the unrealized P&L of its quantity and average price at bar
\* i's close.
EquityCurveEntry ==
    (pc = "feed" /\ bars_fed > 0) =>
        /\ Len(pm.equity_curve) = bar_index
        /\ pm.equity_curve[bar_index] = total_equity(pm)
        /\ \A s \in OpenSymbols(pm) :
             pm.positions[s].unrealized_pnl =
                 calculate_unrealized_pnl(
                     pm.positions[s].side, pm.positions[s].avg_price,
                     bar.close, pm.positions[s].quantity,
                     ContractRegistry_get(s).multiplier)

\* A bar processed with a position open whose unrealized P&L is not zero,
\* in a bar that filled an order.
EquityCurveEntryWitness ==
    /\ pc = "feed"
    /\ bars_fed >= 2
    /\ \E s \in OpenSymbols(pm) : pm.positions[s].unrealized_pnl # 0
    /\ \E i \in DOMAIN all_fills : all_fills[i].timestamp = bar.datetime

RECURSIVE SumPnl(_)
SumPnl(records) ==
    IF records = <<>> THEN 0 ELSE Head(records).pnl + SumPnl(Tail(records))

PositionWellFormed ==
    \A s \in DOMAIN pm.positions :
        /\ pm.positions[s].side \in { BUY, SELL }
        /\ pm.positions[s].quantity >= 0
        /\ pm.positions[s].symbol = s
        /\ IF pm.positions[s].quantity = 0
           THEN /\ get_position(pm, s) = None
                /\ s \notin DOMAIN get_portfolio_state(pm).positions
           ELSE /\ get_position(pm, s) = pm.positions[s]
                /\ s \in DOMAIN get_portfolio_state(pm).positions

\* A position fully closed: still stored, with quantity 0.
PositionWellFormedWitness ==
    \E s \in DOMAIN pm.positions :
        pm.positions[s].quantity = 0 /\ pm.trade_records # <<>>

\* The fills that meet an open position of the opposite side, counted by
\* replaying the signed quantities of the fills from a flat account.
RECURSIVE ClosingFills(_, _)
ClosingFills(fills, net) ==
    IF fills = <<>> THEN 0
    ELSE LET f == Head(fills)
             signed == IF f.side = BUY THEN f.quantity ELSE 0 - f.quantity
         IN  (IF (net > 0 /\ signed < 0) \/ (net < 0 /\ signed > 0) THEN 1 ELSE 0)
             + ClosingFills(Tail(fills), net + signed)

\* C8: the pnl of the trade records sums to realized_pnl, and there is one
\* trade record, of a quantity > 0, for each fill that met an open position
\* of the opposite side, and no other.
TradeRecordsMatchRealized ==
    /\ SumPnl(pm.trade_records) = pm.realized_pnl
    /\ Len(pm.trade_records) = ClosingFills(all_fills, 0)
    /\ \A i \in DOMAIN pm.trade_records : pm.trade_records[i].quantity > 0

\* Trades recorded with a P&L, and a position opened again after a close.
TradeRecordsMatchRealizedWitness ==
    /\ pm.trade_records # <<>>
    /\ pm.realized_pnl # 0
    /\ Len(all_fills) > Len(pm.trade_records) + 1

\* C9: a pending MARKET order for the bar's symbol is filled by on_bar for
\* its whole quantity at open + tick_size * slippage_ticks (BUY) or
\* open - tick_size * slippage_ticks (SELL) and leaves the queue.
MarketOrderFills ==
    [][ pc = "match" =>
          \A i \in DOMAIN pending_orders :
            LET o == pending_orders[i]
            IN  (o.price_type = MARKET /\ o.symbol = bar.symbol) =>
                  /\ \E j \in NewFillIndexes :
                       /\ filled_orders'[j] = o
                       /\ all_fills'[j].order_id = o.id
                       /\ all_fills'[j].side = o.side
                       /\ all_fills'[j].quantity = o.quantity
                       /\ all_fills'[j].price =
                            IF o.side = BUY
                            THEN bar.open + D(TX_TICK_SIZE) * slippage_ticks
                            ELSE bar.open - D(TX_TICK_SIZE) * slippage_ticks
                  /\ \A k \in DOMAIN pending_orders' : pending_orders'[k] # o
      ]_vars

\* A MARKET BUY and a MARKET SELL have both been filled.
MarketOrderFillsWitness ==
    /\ \E i \in DOMAIN all_fills :
         filled_orders[i].price_type = MARKET /\ all_fills[i].side = BUY
    /\ \E i \in DOMAIN all_fills :
         filled_orders[i].price_type = MARKET /\ all_fills[i].side = SELL

\* C10: a pending LIMIT BUY is filled by on_bar exactly when bar.low <=
\* limit, at min(limit, open); a LIMIT SELL exactly when bar.high >= limit,
\* at max(limit, open); without slippage; an order whose condition fails
\* produces no fill and stays pending.
LimitOrderFills ==
    [][ pc = "match" =>
          \A i \in DOMAIN pending_orders :
            LET o == pending_orders[i]
            IN  (o.price_type = LIMIT /\ o.symbol = bar.symbol) =>
                  LET limit == o.price[1]
                      met == IF o.side = BUY THEN bar.low <= limit
                             ELSE bar.high >= limit
                      at == IF o.side = BUY THEN Min(limit, bar.open)
                            ELSE Max(limit, bar.open)
                      fills_of_o == { j \in NewFillIndexes : filled_orders'[j] = o }
                      kept == { k \in DOMAIN pending_orders' : pending_orders'[k] = o }
                  IN  /\ met => Cardinality(fills_of_o) = 1 /\ kept = {}
                      /\ ~met => fills_of_o = {} /\ Cardinality(kept) = 1
                      /\ \A j \in fills_of_o :
                           /\ all_fills'[j].price = at
                           /\ all_fills'[j].quantity = o.quantity
                           /\ all_fills'[j].side = o.side
      ]_vars

\* A LIMIT BUY filled below its limit at the open, a LIMIT order filled at
\* its limit, and a LIMIT order still pending after an on_bar.
LimitOrderFillsWitness ==
    /\ \E i \in DOMAIN all_fills :
         /\ filled_orders[i].price_type = LIMIT
         /\ all_fills[i].side = BUY
         /\ all_fills[i].price < filled_orders[i].price[1]
    /\ \E k \in DOMAIN pending_orders :
         /\ pending_orders[k].price_type = LIMIT
         /\ pending_orders[k].timestamp[1] < bar.datetime
         /\ pc = "mtm"

\* The fill a PositionApplyFill step applies, and whether the step is one.
AppliedFill == all_fills'[Len(all_fills')]

AppliesOneFill == Len(all_fills') = Len(all_fills) + 1

RECURSIVE SumPriceQuantity(_)
SumPriceQuantity(fills) ==
    IF fills = <<>> THEN 0
    ELSE Head(fills).price * Head(fills).quantity + SumPriceQuantity(Tail(fills))

\* C13: from no position, after fills of one side only the position's
\* quantity is the sum of the fill quantities, its avg_price is
\* sum(price * quantity) / sum(quantity), its side is the fills' side and
\* its entry bar index is the bar index of the opening fill.
WeightedAverageAfterAdds ==
    (all_fills # <<>> /\ \A i \in DOMAIN all_fills : all_fills[i].side = all_fills[1].side) =>
        /\ DictHas(pm.positions, EngineSymbol)
        /\ pm.positions[EngineSymbol].quantity = SumQuantity(all_fills)
        /\ pm.positions[EngineSymbol].avg_price =
               DecimalDivide(SumPriceQuantity(all_fills), SumQuantity(all_fills))
        /\ pm.positions[EngineSymbol].side = all_fills[1].side
        /\ pm.entry_bar_index[EngineSymbol] = all_fills[1].timestamp

FullClose ==
    [][ AppliesOneFill =>
          LET pos == get_position(pm, EngineSymbol)
          IN  (/\ pos # None
               /\ pos.side # AppliedFill.side
               /\ AppliedFill.quantity = pos.quantity) =>
                 LET new == pm'.positions[EngineSymbol]
                     record == pm'.trade_records[Len(pm'.trade_records)]
                 IN  /\ pm'.trade_records = Append(pm.trade_records, record)
                     /\ record.pnl =
                          IF pos.side = BUY
                          THEN (AppliedFill.price - pos.avg_price)
                                 * pos.quantity * TX_MULTIPLIER
                          ELSE (pos.avg_price - AppliedFill.price)
                                 * pos.quantity * TX_MULTIPLIER
                     /\ new.quantity = 0
                     /\ new.unrealized_pnl = 0
                     /\ new.margin_required = 0
                     /\ get_position(pm', EngineSymbol) = None
      ]_vars

\* A short closed in full at a price other than its entry.
FullCloseWitness ==
    /\ pc = "position"
    /\ Len(all_fills) = 2
    /\ all_fills[1].side = SELL /\ all_fills[2].side = BUY
    /\ all_fills[1].quantity = all_fills[2].quantity
    /\ Len(pm.trade_records) = 1
    /\ pm.trade_records[1].pnl # 0
    /\ pm.positions[EngineSymbol].quantity = 0

\* C16: a fill of the opposite side and of a larger quantity than the
\* position closes the whole position with one TradeRecord of the old
\* quantity and opens a position of the fill's side, of the remaining
\* quantity, at the fill's price, with margin_required = initial_margin *
\* remainder, unrealized_pnl 0 and the current bar index as entry bar index.
Reverse ==
    [][ AppliesOneFill =>
          LET pos == get_position(pm, EngineSymbol)
          IN  (/\ pos # None
               /\ pos.side # AppliedFill.side
               /\ AppliedFill.quantity > pos.quantity) =>
                 LET new == pm'.positions[EngineSymbol]
                     record == pm'.trade_records[Len(pm'.trade_records)]
                     remainder == AppliedFill.quantity - pos.quantity
                 IN  /\ pm'.trade_records = Append(pm.trade_records, record)
                     /\ record.quantity = pos.quantity
                     /\ record.side = pos.side
                     /\ new.side = AppliedFill.side
                     /\ new.quantity = remainder
                     /\ new.avg_price = AppliedFill.price
                     /\ new.margin_required = D(TX_INITIAL_MARGIN) * remainder
                     /\ new.unrealized_pnl = 0
                     /\ pm'.entry_bar_index[EngineSymbol] = pm.current_bar_index
      ]_vars

\* A long of 1 reversed into a short of 1 by a SELL of 2 in a later bar.
ReverseWitness ==
    /\ pc = "position"
    /\ Len(all_fills) = 2
    /\ all_fills[1].side = BUY /\ all_fills[1].quantity = 1
    /\ all_fills[2].side = SELL /\ all_fills[2].quantity = 2
    /\ all_fills[2].timestamp > all_fills[1].timestamp
    /\ pm.positions[EngineSymbol].side = SELL
    /\ pm.positions[EngineSymbol].quantity = 1
    /\ pm.entry_bar_index[EngineSymbol] = all_fills[2].timestamp

\* The strategy of scenario S2: MARKET BUY 1 during B1, MARKET SELL 1 during
\* B3 and nothing else, both filled by the end of the run.
RoundTripStrategy ==
    /\ pc = "done"
    /\ uuid = 2
    /\ filled_orders =
         << [ id |-> [ kind |-> "uuid", n |-> 1 ], symbol |-> EngineSymbol,
              side |-> BUY, quantity |-> 1, price_type |-> MARKET,
              price |-> Nothing, timestamp |-> Some(0) ],
            [ id |-> [ kind |-> "uuid", n |-> 2 ], symbol |-> EngineSymbol,
              side |-> SELL, quantity |-> 1, price_type |-> MARKET,
              price |-> Nothing, timestamp |-> Some(2) ] >>

\* The fills and the one trade of scenario S2, but for bars_held.
RoundTripFillsAndTrade ==
    /\ Len(all_fills) = 2
    /\ all_fills[1].price = D(20021) /\ all_fills[1].timestamp = 1
    /\ all_fills[2].price = D(20109) /\ all_fills[2].timestamp = 3
    /\ Len(result.trade_records) = 1
    /\ result.trade_records[1].pnl = D(17600)
    /\ result.trade_records[1].entry_price = D(20021)
    /\ result.trade_records[1].exit_price = D(20109)
    /\ result.trade_records[1].quantity = 1

\* C17 as stated: in scenario S2 the buy fills at 20021 on B2, the sell at
\* 20109 on B4, and the run yields one TradeRecord with pnl = 17600,
\* entry_price = 20021, exit_price = 20109, quantity = 1 and bars_held = 3.
RoundTripBarsHeldThree ==
    RoundTripStrategy =>
        /\ RoundTripFillsAndTrade
        /\ result.trade_records[1].bars_held = 3

\* C17 amended: the same fills and the same TradeRecord, with bars_held = 2:
\* the position is entered at B2 (bar index 1) and closed at B4 (bar index 3).
RoundTripBarsHeldTwo ==
    RoundTripStrategy =>
        /\ RoundTripFillsAndTrade
        /\ result.trade_records[1].bars_held = 2

\* The run of scenario S2 has ended with its two orders filled.
RoundTripWitness ==
    /\ RoundTripStrategy
    /\ result # None
    /\ result.total_bars = 4
    /\ result.total_trades = 1

\* Whether on_bar fills order o at bar b, as the matching rules state it.
FillableAt(o, b) ==
    /\ o.symbol = b.symbol
    /\ \/ o.price_type = MARKET
       \/ o.price_type = LIMIT /\ o.side = BUY /\ b.low <= o.price[1]
       \/ o.price_type = LIMIT /\ o.side = SELL /\ b.high >= o.price[1]

\* The position manager after the fill callback has received fills one by
\* one, first to last.
RECURSIVE DeliverFills(_, _)
DeliverFills(p, fills) ==
    IF fills = <<>> THEN p
    ELSE DeliverFills(on_fill(p, Head(fills)), Tail(fills))

\* C11: on_bar is a stable partition of the queue. The orders it fills are
\* the fillable pending orders in queue order, their fills are returned in
\* that order and reach the fill callback one by one in that order; the
\* orders left pending are the others (unfilled limit orders, orders for
\* other symbols) in their original relative order; and in any step a pending
\* limit order stays pending unless that step fills it or cancels its id.
StablePartition ==
    [][ pc = "matching" =>
          /\ bars_fed' = bars_fed + 1 =>
               /\ IsPrefix(all_fills, all_fills')
               /\ IsPrefix(filled_orders, filled_orders')
               /\ Len(all_fills') = Len(filled_orders')
               /\ SubSeq(filled_orders', Len(filled_orders) + 1, Len(filled_orders'))
                    = SelectSeq(pending_orders, LAMBDA o : FillableAt(o, bar'))
               /\ \A i \in NewFillIndexes :
                    /\ all_fills'[i].order_id = filled_orders'[i].id
                    /\ all_fills'[i].timestamp = bar'.datetime
               /\ pending_orders'
                    = SelectSeq(pending_orders, LAMBDA o : ~FillableAt(o, bar'))
               /\ pm' = DeliverFills(pm,
                         SubSeq(all_fills', Len(all_fills) + 1, Len(all_fills')))
          /\ \A i \in DOMAIN pending_orders :
               pending_orders[i].price_type = LIMIT =>
                 \/ \E k \in DOMAIN pending_orders' :
                      pending_orders'[k] = pending_orders[i]
                 \/ \E j \in NewFillIndexes :
                      filled_orders'[j] = pending_orders[i]
                 \/ /\ Len(step_log') = Len(step_log) + 1
                    /\ step_log'[Len(step_log')].order_id = pending_orders[i].id
      ]_vars

\* After two bars of its symbol a limit order is still pending, while two
\* orders submitted after it were filled together, in submission order, by
\* the first of those bars.
StablePartitionWitness ==
    /\ bars_fed = 2
    /\ \E k \in DOMAIN pending_orders, i \in DOMAIN all_fills, j \in DOMAIN all_fills :
         /\ pending_orders[k].price_type = LIMIT
         /\ pending_orders[k].symbol = bar.symbol
         /\ i < j
         /\ all_fills[i].timestamp = 0
         /\ all_fills[j].timestamp = 0
         /\ all_fills[i].symbol = bar.symbol
         /\ pending_orders[k].timestamp[1] < filled_orders[i].timestamp[1]
         /\ filled_orders[i].timestamp[1] < filled_orders[j].timestamp[1]

\* The position in the queue of the first pending order with the id, or 0.
FirstWithId(orders, order_id) ==
    IF \E i \in DOMAIN orders : orders[i].id = order_id
    THEN CHOOSE i \in DOMAIN orders :
            /\ orders[i].id = order_id
            /\ \A j \in 1..(i - 1) : orders[j].id # order_id
    ELSE 0

\* No order that a cancel_order call removed is filled by this step.
CancelledNotFilled ==
    \A j \in NewFillIndexes, c \in DOMAIN step_log :
        \A r \in DOMAIN step_log[c].removed :
            filled_orders'[j] # step_log[c].removed[r]

\* C12 as stated: cancel_order(order_id) removes the first pending order
\* whose id is order_id and no other, and returns true exactly when an order
\* was removed; with no such order the queue is unchanged and it returns
\* false; a cancelled order never fills afterwards.
CancelRemovesFirst ==
    [][ pc = "matching" =>
          /\ Len(step_log') = Len(step_log) + 1 =>
               LET call == step_log'[Len(step_log')]
                   first == FirstWithId(pending_orders, call.order_id)
               IN  /\ first = 0 =>
                        pending_orders' = pending_orders /\ ~call.returned
                   /\ first # 0 =>
                        /\ call.returned
                        /\ pending_orders'
                             = SubSeq(pending_orders, 1, first - 1)
                               \o SubSeq(pending_orders, first + 1, Len(pending_orders))
          /\ CancelledNotFilled
      ]_vars

\* C12 amended: cancel_order(order_id) removes every pending order whose id
\* is order_id, keeps the others in their order, and returns true exactly
\* when at least one order was removed; with no such order the queue is
\* unchanged and it returns false; a cancelled order never fills afterwards.
CancelRemovesAll ==
    [][ pc = "matching" =>
          /\ Len(step_log') = Len(step_log) + 1 =>
               LET call == step_log'[Len(step_log')]
               IN  /\ pending_orders'
                        = SelectSeq(pending_orders, LAMBDA o : o.id # call.order_id)
                   /\ call.returned
                        = (\E i \in DOMAIN pending_orders :
                              pending_orders[i].id = call.order_id)
                   /\ call.removed
                        = SelectSeq(pending_orders, LAMBDA o : o.id = call.order_id)
          /\ CancelledNotFilled
      ]_vars

\* A cancel_order call returned true and removed two MARKET orders with the
\* same id; a bar of their symbol, which would have filled them, came later
\* and filled an order submitted after them.
CancelRemovesAllWitness ==
    /\ Len(step_log) = 1
    /\ step_log[1].returned
    /\ Len(step_log[1].removed) = 2
    /\ \A r \in DOMAIN step_log[1].removed :
         /\ step_log[1].removed[r].price_type = MARKET
         /\ step_log[1].removed[r].symbol = "TX"
    /\ \E i \in DOMAIN all_fills :
         /\ all_fills[i].symbol = "TX"
         /\ \A r \in DOMAIN step_log[1].removed :
              step_log[1].removed[r].timestamp[1] < filled_orders[i].timestamp[1]

\* The orders this step appended to the matching queue.
NewPendingOrders ==
    SubSeq(pending_orders', Len(pending_orders) + 1, Len(pending_orders'))

\* orders holds one MARKET close order, opposite side and full quantity, for
\* every open position of p, and nothing else.
ClosesEveryPosition(p, orders) ==
    /\ Len(orders) = Cardinality(OpenSymbols(p))
    /\ \A sym \in OpenSymbols(p) :
         \E i \in DOMAIN orders :
            /\ orders[i].symbol = sym
            /\ orders[i].side = Opposite(p.positions[sym].side)
            /\ orders[i].quantity = p.positions[sym].quantity
            /\ orders[i].price_type = MARKET

\* Whether the equity at this risk step breaches the drawdown limit (the
\* peak updated first) or the daily loss limit; the monitor takes its first
\* equity as peak and session start.
BreachAtRiskStep ==
    LET equity == total_equity(pm)
        peak == IF risk.initialized THEN Max(risk.peak_equity, equity) ELSE equity
        start == IF risk.initialized THEN risk.session_start_equity ELSE equity
    IN  \/ peak > 0 /\ RatioAtLeastPercent(peak - equity, peak,
                                           rs.max_drawdown_pct_percent)
        \/ equity - start <= 0 - rs.max_daily_loss

\* The orders a strategy can hand to the context.
StrategyOrders ==
    { context_order(ctx_bars, uuid + 1, side, quantity, price) :
        side \in { BUY, SELL }, quantity \in Quantities,
        price \in { Nothing } \cup { Some(p) : p \in Prices } }

ForcedCloseOnEveryHaltedBar ==
    [][ (pc = "risk" /\ risk'.trading_halted) =>
           /\ IsPrefix(pending_orders, pending_orders')
           /\ ClosesEveryPosition(pm, NewPendingOrders)
           /\ \A i \in DOMAIN NewPendingOrders :
                NewPendingOrders[i].id.kind = "risk_close"
           /\ risk'.trailing_extremes = risk.trailing_extremes
      ]_vars

\* An order the risk manager made: a stop order or a forced close.
FromRiskManager(o) == o.id.kind \in { "stop", "risk_close" }

\* In queue q no order the strategy submitted during bar b stands before an
\* order of the risk manager.
RiskOrdersPrecede(q, b) ==
    \A i \in DOMAIN q, j \in DOMAIN q :
        (i < j /\ FromRiskManager(q[j])) =>
            \/ FromRiskManager(q[i])
            \/ q[i].timestamp[1] < b.datetime

\* C20: the orders RiskManager.on_bar returns on bar N are appended to the
\* matching queue without a pre-trade check, also while trading is halted
\* (the forced closes of a breach are queued although check_pre_trade turns
\* every order down), and before strategy.on_bar of bar N: in the queue they
\* precede every order the strategy submits on bar N, and the next bar's
\* on_bar fills them all.
RiskOrdersQueuedFirst ==
    [][ /\ pc = "risk" =>
             /\ IsPrefix(pending_orders, pending_orders')
             /\ \A i \in DOMAIN NewPendingOrders :
                  FromRiskManager(NewPendingOrders[i])
             /\ Len(step_log) = 3 /\ Len(ctx_bars) = bars_fed - 1
             /\ (BreachAtRiskStep /\ OpenSymbols(pm) # {}) =>
                  /\ NewPendingOrders # <<>>
                  /\ \A i \in DOMAIN NewPendingOrders :
                       check_pre_trade(risk', rs, pm, NewPendingOrders[i]).reason
                         # "ok"
        /\ pc = "strategy" => IsPrefix(pending_orders, pending_orders')
        /\ bar' # None => RiskOrdersPrecede(pending_orders', bar')
        /\ pc = "match" =>
             /\ \A i \in DOMAIN pending_orders :
                  FromRiskManager(pending_orders[i]) =>
                    \E j \in NewFillIndexes :
                       /\ filled_orders'[j] = pending_orders[i]
                       /\ all_fills'[j].timestamp = bar.datetime
             /\ \A k \in DOMAIN pending_orders' :
                  ~FromRiskManager(pending_orders'[k])
      ]_vars

\* A stop order and an order the strategy submitted on the same bar were
\* both filled by the next bar, the stop order first.
RiskOrdersQueuedFirstWitness ==
    \E i \in DOMAIN all_fills, j \in DOMAIN all_fills :
        /\ i < j
        /\ filled_orders[i].id.kind = "stop"
        /\ filled_orders[j].id.kind = "uuid"
        /\ all_fills[i].timestamp = all_fills[j].timestamp
        /\ filled_orders[j].timestamp[1] + 1 = all_fills[i].timestamp

\* The call result holds is a check of an order on the side opposite to an
\* open position of the order's symbol.
AgainstOpenPosition(call) ==
    /\ DictHas(call.portfolio.positions, call.order.symbol)
    /\ call.portfolio.positions[call.order.symbol].quantity > 0
    /\ call.portfolio.positions[call.order.symbol].side # call.order.side

\* initial_margin * order.quantity > portfolio.available_margin.
MarginShort(call) ==
    (IF call.order.symbol = "TX" THEN D(TX_INITIAL_MARGIN) ELSE D(MTX_INITIAL_MARGIN))
        * call.order.quantity > call.portfolio.available_margin

\* The absolute net position the order of the call results in.
ResultingPosition(call) ==
    LET held == DictHas(call.portfolio.positions, call.order.symbol)
        old_qty == IF held THEN call.portfolio.positions[call.order.symbol].quantity
                   ELSE 0
    IN  IF ~held \/ old_qty = 0 THEN call.order.quantity
        ELSE IF call.portfolio.positions[call.order.symbol].side = call.order.side
        THEN old_qty + call.order.quantity
        ELSE Abs(old_qty - call.order.quantity)

\* C21: check never answers 'Insufficient margin' for an order on the side
\* opposite to an open position of its symbol, whatever its quantity; for
\* every other order it answers 'Insufficient margin' exactly when
\* initial_margin * quantity > available_margin, also when the position limit
\* or the daily loss limit would turn the order down as well.
MarginCheckFirst ==
    (result # None /\ result.call = "check") =>
        IF AgainstOpenPosition(result)
        THEN result.reason # "Insufficient margin"
        ELSE (result.reason = "Insufficient margin") <=> MarginShort(result)

\* An order against the position larger than the free margin covers passed
\* the margin check, and an order short of margin, over the position limit
\* and after the daily loss limit was answered 'Insufficient margin'.
MarginCheckFirstWitness ==
    /\ result # None
    /\ result.call = "check"
    /\ \/ /\ AgainstOpenPosition(result)
          /\ MarginShort(result)
          /\ result.reason # "Insufficient margin"
       \/ /\ ~AgainstOpenPosition(result)
          /\ MarginShort(result)
          /\ ResultingPosition(result) > SmallPositionLimit
          /\ 0 - result.daily_realized_pnl >= D(TightMaxDailyLoss)
          /\ result.reason = "Insufficient margin"

\* C22: the position-limit check answers 'Position limit exceeded' exactly
\* when the resulting absolute net position (old + qty on the same side,
\* |old - qty| on the opposite side, qty without a position) is greater than
\* max_position_contracts; an order that brings the position exactly to the
\* limit passes; within check, an order that passed the margin check is turned
\* down by it in the same cases.
PositionLimitCheck ==
    /\ (result # None /\ result.call = "check_position_limit") =>
          ((result.reason = "Position limit exceeded")
              <=> ResultingPosition(result) > rs.max_position_contracts)
    /\ (result # None /\ result.call = "check"
          /\ result.reason # "Insufficient margin") =>
          ((result.reason = "Position limit exceeded")
              <=> ResultingPosition(result) > rs.max_position_contracts)

\* An order that reverses the position exactly to the limit passed the
\* position-limit check.
PositionLimitCheckWitness ==
    /\ result # None
    /\ result.call = "check_position_limit"
    /\ AgainstOpenPosition(result)
    /\ result.order.quantity > SmallPositionLimit
    /\ ResultingPosition(result) = rs.max_position_contracts
    /\ result.reason = "ok"

\* The extreme the trailing stop of the last on_bar call compares with: the
\* stored one, replaced by the bar's high (long) or low (short) when that is
\* further out or nothing is stored.
TrailingExtreme(call, b) ==
    LET stored == DictHas(call.extremes, b.symbol)
    IN  IF call.position.side = BUY
        THEN IF stored THEN Max(call.extremes[b.symbol], b.high) ELSE b.high
        ELSE IF stored THEN Min(call.extremes[b.symbol], b.low) ELSE b.low

\* Whether one of the configured stops holds for the last on_bar call.
SomeStopHolds(call, b) ==
    LET pos == call.position
        long == pos.side = BUY
    IN  \/ /\ rs.stop_loss_points # Nothing
           /\ IF long THEN b.low <= pos.avg_price - D(rs.stop_loss_points[1])
                      ELSE b.high >= pos.avg_price + D(rs.stop_loss_points[1])
        \/ /\ rs.take_profit_points # Nothing
           /\ IF long THEN b.high >= pos.avg_price + D(rs.take_profit_points[1])
                      ELSE b.low <= pos.avg_price - D(rs.take_profit_points[1])
        \/ /\ rs.trailing_stop_points # Nothing
           /\ IF long
              THEN b.low <= TrailingExtreme(call, b) - D(rs.trailing_stop_points[1])
              ELSE b.high >= TrailingExtreme(call, b) + D(rs.trailing_stop_points[1])
        \/ /\ rs.time_stop_bars # Nothing
           /\ call.bars_held >= rs.time_stop_bars[1]

\* C24: StopEngine.on_bar returns one MARKET order, opposite to the position
\* and for its quantity, if and only if the position has quantity > 0 and a
\* configured stop holds on the bar (stop-loss, take-profit, trailing stop or
\* time stop, boundaries included); it returns no order for no position, a
\* position of quantity 0, no configured stop or no triggered stop.
StopOrderIffStopHolds ==
    (result # None /\ result.call = "on_bar") =>
        IF result.position = None THEN result.order = None
        ELSE IF result.position.quantity = 0 THEN result.order = None
        ELSE /\ (result.order # None) <=> SomeStopHolds(result, bar)
             /\ result.order # None =>
                  /\ result.order.price_type = MARKET
                  /\ result.order.side = Opposite(result.position.side)
                  /\ result.order.quantity = result.position.quantity
                  /\ result.order.symbol = bar.symbol

\* A stop-loss exactly at its level returned the close order of a long
\* position of two contracts.
StopOrderIffStopHoldsWitness ==
    /\ result # None
    /\ result.call = "on_bar"
    /\ result.position # None
    /\ result.position.side = BUY
    /\ result.position.quantity = 2
    /\ rs.stop_loss_points = Some(1)
    /\ rs.take_profit_points = Nothing
    /\ bar.low = result.position.avg_price - D(1)
    /\ result.order # None
    /\ result.order.side = SELL
    /\ result.order.quantity = 2

\* The risk step of a bar finds an open position on the bar's symbol and a
\* trailing stop configured.
TrailingEvaluated ==
    /\ pc = "risk"
    /\ rs.trailing_stop_points # Nothing
    /\ bar.symbol \in OpenSymbols(pm)

\* The bars seen since the position on sym was opened, the current one
\* included.
BarsSinceOpened(sym) ==
    { ctx_bars[i] : i \in { j \in DOMAIN ctx_bars :
                            ctx_bars[j].datetime >= DictGet(pm.entry_bar_index, sym, 0) } }
    \cup { bar }

\* The maximum high (long) or minimum low (short) over those bars.
ExtremeSinceOpened(sym) ==
    IF pm.positions[sym].side = BUY
    THEN CHOOSE h \in { b.high : b \in BarsSinceOpened(sym) } :
           \A b \in BarsSinceOpened(sym) : b.high <= h
    ELSE CHOOSE l \in { b.low : b \in BarsSinceOpened(sym) } :
           \A b \in BarsSinceOpened(sym) : b.low >= l

\* C25: with trailing_stop_points = P, on each bar of a held position the
\* trailing stop triggers (a stop order is queued) exactly when
\* bar.low <= E - P (long) or bar.high >= E + P (short), E being the maximum
\* high (long) or minimum low (short) over the bars seen since the position
\* was opened, the current bar included.
TrailingTriggersOnExtremeSinceOpened ==
    [][ TrailingEvaluated =>
          ( (pending_orders' # pending_orders) <=>
              IF pm.positions[bar.symbol].side = BUY
              THEN bar.low <= ExtremeSinceOpened(bar.symbol)
                                - D(rs.trailing_stop_points[1])
              ELSE bar.high >= ExtremeSinceOpened(bar.symbol)
                                + D(rs.trailing_stop_points[1]) )
      ]_vars

\* C26: while a long position is held from one bar to the next, the stored
\* extreme of its symbol does not decrease at the risk step; while a short
\* position is held, it does not increase.
TrailingExtremeMonotone ==
    [][ ( /\ TrailingEvaluated
          /\ DictGet(pm.entry_bar_index, bar.symbol, 0) < pm.current_bar_index
          /\ DictHas(risk.trailing_extremes, bar.symbol) ) =>
          /\ DictHas(risk'.trailing_extremes, bar.symbol)
          /\ IF pm.positions[bar.symbol].side = BUY
             THEN risk'.trailing_extremes[bar.symbol]
                    >= risk.trailing_extremes[bar.symbol]
             ELSE risk'.trailing_extremes[bar.symbol]
                    <= risk.trailing_extremes[bar.symbol]
      ]_vars

\* A long position held since an earlier bar has been evaluated on a bar whose
\* high lies above the previous bar's: the stored extreme rose to it.
TrailingExtremeMonotoneWitness ==
    /\ pc = "push"
    /\ rs.trailing_stop_points # Nothing
    /\ bar.symbol \in OpenSymbols(pm)
    /\ pm.positions[bar.symbol].side = BUY
    /\ DictGet(pm.entry_bar_index, bar.symbol, 0) < pm.current_bar_index
    /\ ctx_bars # <<>>
    /\ ctx_bars[Len(ctx_bars)].high < bar.high
    /\ DictHas(risk.trailing_extremes, bar.symbol)
    /\ risk.trailing_extremes[bar.symbol] = bar.high

\* C27: in an engine run the trailing extreme of a symbol is cleared when its
\* position closes (fully, or as the closed leg of a reverse): a position
\* opened on the current bar is evaluated with no extreme stored, and the
\* extreme stored by an evaluation is the one over the bars seen since the
\* evaluated position was opened.
TrailingExtremeClearedOnClose ==
    [][ TrailingEvaluated =>
          /\ DictGet(pm.entry_bar_index, bar.symbol, 0) = pm.current_bar_index
               => ~DictHas(risk.trailing_extremes, bar.symbol)
          /\ DictHas(risk'.trailing_extremes, bar.symbol)
          /\ risk'.trailing_extremes[bar.symbol] = ExtremeSinceOpened(bar.symbol)
      ]_vars

IsPush(e) == e.call = "push_bar"

\* The bars pushed by the first n calls of the context driven by itself, in
\* push order.
PushedBy(n) ==
    LET pushes == SelectSeq(SubSeq(step_log, 1, n), IsPush)
    IN  [ i \in DOMAIN pushes |-> pushes[i].bar ]

\* The last min(k, max_history) of k pushed bars.
LastPushed(pushed) ==
    SubSeq(pushed, Len(pushed) - Min(Len(pushed), SmallMaxHistory) + 1,
           Len(pushed))

\* C28: after k calls of push_bar, bar_count = min(k, max_history), bars
\* holds the last min(k, max_history) pushed bars in push order and
\* current_bar is the bar pushed last (no bar when k = 0); during
\* strategy.on_bar of bar N the history ends with bar N and holds no later
\* bar.
BoundedHistory ==
    /\ pc = "context" =>
         LET pushed == PushedBy(Len(step_log))
         IN  /\ Len(pushed) = bars_fed
             /\ Len(ctx_bars) = Min(bars_fed, SmallMaxHistory)
             /\ ctx_bars = LastPushed(pushed)
             /\ current_bar(ctx_bars) =
                  IF bars_fed = 0 THEN None ELSE pushed[bars_fed]
    /\ pc = "strategy" =>
         /\ ctx_bars # <<>>
         /\ current_bar(ctx_bars) = bar
         /\ Len(ctx_bars) = Min(bars_fed, max_history)
         /\ \A i \in DOMAIN ctx_bars : ctx_bars[i].datetime = i - 1

\* A third push has evicted the oldest bar of a history of two.
BoundedHistoryWitness ==
    /\ pc = "context"
    /\ bars_fed > SmallMaxHistory
    /\ Len(ctx_bars) = SmallMaxHistory
    /\ ctx_bars[1].datetime = bars_fed - SmallMaxHistory
    /\ ctx_bars[1] # PushedBy(Len(step_log))[1]

\* The series name built freshly from the bars.
FreshSeries(bars, name) ==
    [ i \in DOMAIN bars |->
        CASE name = "open" -> float(bars[i].open)
          [] name = "high" -> float(bars[i].high)
          [] name = "low" -> float(bars[i].low)
          [] name = "close" -> float(bars[i].close)
          [] name = "volume" -> float(bars[i].volume) ]

\* C29: whatever the interleaving of push_bar calls and reads of the five
\* series, every read returns the series built freshly from the bar history
\* of that moment.
ReadsAreFresh ==
    pc = "context" =>
        \A i \in DOMAIN step_log :
            ~IsPush(step_log[i]) =>
                step_log[i].returned =
                    FreshSeries(LastPushed(PushedBy(i - 1)), step_log[i].call)

\* A series was read, a bar was pushed, and the same series read again came
\* back different.
ReadsAreFreshWitness ==
    /\ pc = "context"
    /\ \E i, j, k \in DOMAIN step_log :
         /\ i < j
         /\ j < k
         /\ ~IsPush(step_log[i])
         /\ IsPush(step_log[j])
         /\ ~IsPush(step_log[k])
         /\ step_log[k].call = step_log[i].call
         /\ step_log[k].returned # step_log[i].returned

\* The step is a call of the context within strategy.on_bar; its entry is
\* the last of step_log afterwards.
ContextCall ==
    /\ pc = "strategy"
    /\ pc' = "strategy"
    /\ Len(step_log') = Len(step_log) + 1

\* C23: when check_pre_trade returns a reason for an order the strategy
\* submits, the engine publishes ORDER_REJECTED, does not queue the order,
\* leaves positions and cash as they are and the strategy step goes on; when
\* it returns none the order is appended to the queue and ORDER_SUBMITTED is
\* published.  buy and sell return the order's id either way, and only
\* queued orders fill.
RejectedOrSubmitted ==
    [][ /\ ( ContextCall /\ step_log'[Len(step_log')].call \in { "buy", "sell" } ) =>
             LET e == step_log'[Len(step_log')]
                 order == e.callback[1]
                 reason == check_pre_trade(risk, rs, pm, order).reason
             IN  /\ Len(e.callback) = 1
                 /\ e.returned = order.id
                 /\ order.id = [ kind |-> "uuid", n |-> uuid' ]
                 /\ pm' = pm
                 /\ Len(e.published) = 1
                 /\ IF reason # "ok"
                    THEN /\ e.published[1].type = "ORDER_REJECTED"
                         /\ e.published[1].data.order = order
                         /\ e.published[1].data.reason = reason
                         /\ pending_orders' = pending_orders
                    ELSE /\ e.published[1].type = "ORDER_SUBMITTED"
                         /\ e.published[1].data = order
                         /\ pending_orders' = Append(pending_orders, order)
        /\ \A i \in DOMAIN filled_orders' :
             i > Len(filled_orders) =>
                \E j \in DOMAIN pending_orders :
                    pending_orders[j] = filled_orders'[i]
      ]_vars

\* A buy of three contracts was turned down for the position limit, answered
\* with its id, and a queued order of the same bar is still waiting.
RejectedOrSubmittedWitness ==
    /\ pc = "strategy"
    /\ Len(step_log) = MaxStepLog
    /\ step_log[MaxStepLog].call = "buy"
    /\ step_log[MaxStepLog].published[1].type = "ORDER_REJECTED"
    /\ step_log[MaxStepLog].published[1].data.reason = "Position limit exceeded"
    /\ step_log[MaxStepLog].returned = [ kind |-> "uuid", n |-> uuid ]
    /\ step_log[MaxStepLog - 1].published[1].type = "ORDER_SUBMITTED"
    /\ Len(pending_orders) = 1
    /\ pending_orders[1].id # step_log[MaxStepLog].returned

\* C30: close_position with no open position on the context's symbol hands
\* nothing to the order callback and returns None; with an open position it
\* hands the callback one MARKET order of the opposite side for the
\* position's full quantity and returns its id.
ClosePositionOrder ==
    [][ ( ContextCall /\ step_log'[Len(step_log')].call = "close_position" ) =>
          LET e == step_log'[Len(step_log')]
          IN  IF EngineSymbol \notin OpenSymbols(pm)
              THEN /\ e.callback = <<>>
                   /\ e.published = <<>>
                   /\ e.returned = None
                   /\ pending_orders' = pending_orders
              ELSE /\ Len(e.callback) = 1
                   /\ e.callback[1].symbol = EngineSymbol
                   /\ e.callback[1].price_type = MARKET
                   /\ e.callback[1].price = Nothing
                   /\ e.callback[1].side = Opposite(pm.positions[EngineSymbol].side)
                   /\ e.callback[1].quantity = pm.positions[EngineSymbol].quantity
                   /\ e.returned = e.callback[1].id
      ]_vars

\* close_position, called with a short position of two, has submitted a MARKET
\* BUY of two, now the last order of the queue, and returned its id.
ClosePositionOrderWitness ==
    /\ pc = "strategy"
    /\ Len(step_log) = MaxStepLog - 1
    /\ step_log[MaxStepLog - 1].call = "close_position"
    /\ Len(step_log[MaxStepLog - 1].callback) = 1
    /\ step_log[MaxStepLog - 1].callback[1].side = BUY
    /\ step_log[MaxStepLog - 1].callback[1].quantity = 2
    /\ step_log[MaxStepLog - 1].returned = [ kind |-> "uuid", n |-> uuid ]
    /\ pending_orders # <<>>
    /\ pending_orders[Len(pending_orders)] = step_log[MaxStepLog - 1].callback[1]

\* C31: run terminates for every finite feed: on_init is called once, before
\* the first bar; every bar the feed yields is processed once, in feed order;
\* on_stop is called once, after the last bar, and a BacktestResult is
\* returned; orders pending when the feed is exhausted produce no fill.
RunTerminates ==
    /\ <>(pc = "done")
    /\ [][ /\ pc' # "start"
           /\ pc = "start" => ( pc' = "feed" /\ bars_fed = 0 /\ all_fills = <<>> )
           /\ bar' # bar =>
                /\ pc = "feed"
                /\ bar'.datetime = bars_fed
                /\ bar_index = bars_fed
                /\ bars_fed' = bars_fed + 1
           /\ ( pc = "snapshot" /\ pc' = "feed" ) =>
                /\ Len(pm'.equity_curve) = bars_fed
                /\ Len(ctx_bars') = bars_fed
                /\ bar_index' = bars_fed
           /\ pc' = "done" =>
                /\ pc = "feed"
                /\ result' # None
                /\ result'.total_bars = bars_fed
                /\ all_fills' = all_fills
                /\ pm' = pm
           /\ pc # "done"
         ]_vars

\* A run over two bars has returned its result with an order still in the
\* queue.
RunTerminatesWitness ==
    /\ pc = "done"
    /\ bars_fed = 2
    /\ result # None
    /\ result.total_bars = 2
    /\ pending_orders # <<>>
    /\ \A i \in DOMAIN all_fills :
         all_fills[i].order_id # pending_orders[1].id

\* The registered base symbols symbol starts with.
RegisteredPrefixes(symbol) ==
    { p \in DOMAIN specs :
        \E n \in 0..Len(chars(symbol)) : SubSeq(chars(symbol), 1, n) = chars(p) }

\* C32: ContractRegistry.get(symbol) returns the spec registered under the
\* longest registered base symbol that is a prefix of symbol, also after
\* custom specs are registered, and raises ContractNotFound when no
\* registered base symbol is a prefix of symbol.
LongestPrefixLookup ==
    [][ ( result' # result /\ result'.call = "get" ) =>
          LET prefixes == RegisteredPrefixes(result'.symbol)
          IN  IF prefixes = {}
              THEN /\ result'.outcome.raised = "ContractNotFoundError"
                   /\ result'.outcome.returned = None
              ELSE /\ result'.outcome.raised = None
                   /\ \E p \in prefixes :
                        /\ \A q \in prefixes : Len(chars(q)) <= Len(chars(p))
                        /\ result'.outcome.returned = specs[p]
      ]_vars

\* With TXF and T registered next to TX and MTX, get("TXFG5") has returned
\* the spec of TXF.
LongestPrefixLookupWitness ==
    /\ pc = "registry"
    /\ DOMAIN specs = { "TX", "MTX", "TXF", "T" }
    /\ result # None
    /\ result.symbol = "TXFG5"
    /\ result.outcome.returned # None
    /\ result.outcome.returned.symbol = "TXF"

\* C33: publish(type, data) calls, before it returns, every handler
\* subscribed to the type, once per subscription and in subscription order,
\* each with the published data, and no handler subscribed to other types
\* only; successive publishes are delivered one after the other.
PublishCallsEverySubscriber ==
    [][ ( pc = "events" /\ bars_fed' # bars_fed ) =>
          LET subscribed == DictGet(handlers, result'.event_type, <<>>)
          IN  /\ Len(result'.calls) = Len(subscribed)
              /\ \A i \in DOMAIN subscribed :
                   /\ i <= Len(result'.calls)
                   /\ result'.calls[i].handler = subscribed[i]
                   /\ result'.calls[i].event.event_type = result'.event_type
                   /\ result'.calls[i].event.data = result'.data
              /\ step_log' = step_log \o result'.calls
      ]_vars

\* C34: in every state of an engine run the quantity of the open position
\* is at most risk_settings.max_position_contracts, whatever the strategy
\* submits within one on_bar callback or leaves resting in the queue.
PositionWithinLimit ==
    \A s \in OpenSymbols(pm) :
        pm.positions[s].quantity <= rs.max_position_contracts

\* The position manager after the first n of the fills applied in order.
RECURSIVE AfterFills(_, _, _)
AfterFills(p, fills, n) ==
    IF n = 0 THEN p ELSE apply_fill(AfterFills(p, fills, n - 1), fills[n])

\* The fills and the filled orders a match step adds.
NewFills == SubSeq(all_fills', Len(all_fills) + 1, Len(all_fills'))

NewFilledOrders ==
    SubSeq(filled_orders', Len(filled_orders) + 1, Len(filled_orders'))

\* C35: an order created to close a position (here: by the stop engine or
\* the forced risk close) only reduces that position: when it fills, a
\* position of the opposite side and of at least its quantity is open, so the
\* fill is a partial or full close, never an Open or a Reverse.
CloseOrdersOnlyReduce ==
    [][ pc = "match" =>
          \A i \in DOMAIN NewFilledOrders :
              FromRiskManager(NewFilledOrders[i]) =>
                  LET before == AfterFills(pm, NewFills, i - 1)
                      o == NewFilledOrders[i]
                  IN  /\ o.symbol \in OpenSymbols(before)
                      /\ before.positions[o.symbol].side = Opposite(o.side)
                      /\ before.positions[o.symbol].quantity >= o.quantity
      ]_vars

\* The quantity held on symbol s, 0 when flat.
HeldQuantity(p, s) == IF s \in OpenSymbols(p) THEN p.positions[s].quantity ELSE 0

\* C36: after trading_halted has become true, no fill on a later bar opens a
\* position or increases one: the fills after the halt are those of forced
\* close orders, each leaves a smaller position of the same side or none,
\* and a flat account stays flat, also with limit orders accepted before the
\* halt still in the queue.
NoNewExposureAfterHalt ==
    [][ ( pc = "match" /\ risk.trading_halted ) =>
          \A i \in DOMAIN NewFills :
              LET before == AfterFills(pm, NewFills, i - 1)
                  after == AfterFills(pm, NewFills, i)
                  s == NewFills[i].symbol
              IN  /\ NewFilledOrders[i].id.kind = "risk_close"
                  /\ HeldQuantity(after, s) < HeldQuantity(before, s)
                  /\ s \in OpenSymbols(after) =>
                       after.positions[s].side = before.positions[s].side
      ]_vars

\* The number of entries of orders that are the k-th submission.
Occurrences(orders, k) ==
    Cardinality({ i \in DOMAIN orders : orders[i].timestamp = Some(k) })

\* The number of times a cancel_order call removed the k-th submission.
CancelledOccurrences(k) ==
    Cardinality({ c \in (DOMAIN step_log) \X (1..(MaxSubmits + 1)) :
                    /\ c[2] \in DOMAIN step_log[c[1]].removed
                    /\ step_log[c[1]].removed[c[2]].timestamp = Some(k) })

\* C37: every order appended to the matching queue is in exactly one of the
\* states pending, filled and cancelled (so a filled or cancelled order is
\* never in the queue again), and each fill is the one fill of a filled
\* order, with the order's order_id, symbol, side and quantity.
OneStatePerOrder ==
    pc = "matching" =>
        /\ \A k \in 0..(uuid - 1) :
               Occurrences(pending_orders, k) + Occurrences(filled_orders, k)
                   + CancelledOccurrences(k) = 1
        /\ Len(all_fills) = Len(filled_orders)
        /\ \A i \in DOMAIN all_fills :
               /\ all_fills[i].order_id = filled_orders[i].id
               /\ all_fills[i].symbol = filled_orders[i].symbol
               /\ all_fills[i].side = filled_orders[i].side
               /\ all_fills[i].quantity = filled_orders[i].quantity

OneStatePerOrderWitness ==
    /\ pc = "matching"
    /\ uuid = 3
    /\ Len(pending_orders) = 1
    /\ Len(filled_orders) = 1
    /\ \E j \in DOMAIN step_log : Len(step_log[j].removed) = 1
    /\ bars_fed = 2

\* +quantity for a BUY, -quantity for a SELL.
Signed(side, quantity) == IF side = BUY THEN quantity ELSE 0 - quantity

\* The signed position of symbol s, 0 when there is none.
SignedPosition(p, s) ==
    IF s \in OpenSymbols(p)
    THEN Signed(p.positions[s].side, p.positions[s].quantity)
    ELSE 0

RECURSIVE SumSignedFills(_, _)
SumSignedFills(fills, s) ==
    IF fills = <<>> THEN 0
    ELSE ( IF Head(fills).symbol = s
           THEN Signed(Head(fills).side, Head(fills).quantity) ELSE 0 )
         + SumSignedFills(Tail(fills), s)

\* C38: after any sequence of apply_fill calls the signed position of a
\* symbol is the sum of the signed quantities of the fills applied, and the
\* margin_required of every open position is initial_margin * quantity.
SignedPositionIsFillSum ==
    pc = "position" =>
        /\ SignedPosition(pm, EngineSymbol) = SumSignedFills(all_fills, EngineSymbol)
        /\ \A s \in OpenSymbols(pm) :
               pm.positions[s].margin_required =
                   ContractRegistry_get(s).initial_margin * pm.positions[s].quantity

\* Three fills: an open, an add and a reversal that leaves a short position.
SignedPositionIsFillSumWitness ==
    /\ pc = "position"
    /\ Len(all_fills) = 3
    /\ all_fills[1].side = BUY /\ all_fills[2].side = BUY /\ all_fills[3].side = SELL
    /\ SignedPosition(pm, EngineSymbol) < 0

\* C39: every fill on_bar produces against a bar with low <= min(open,
\* close) and max(open, close) <= high has its price within the bar's
\* range, low <= price <= high, for MARKET and for LIMIT orders.
FillPriceWithinBar ==
    [][ ( /\ pc = "matching"
          /\ bars_fed' = bars_fed + 1
          /\ bar'.low <= Min(bar'.open, bar'.close)
          /\ Max(bar'.open, bar'.close) <= bar'.high ) =>
            \A i \in DOMAIN NewFills :
                bar'.low <= NewFills[i].price /\ NewFills[i].price <= bar'.high
      ]_vars

\* C40: a second run() on the same engine over the same feed starts from
\* the initial capital with no position, an empty matching queue, no trade
\* records, an empty equity curve and a risk monitor that is not halted;
\* its equity curve has total_bars entries, and its result has the first
\* run's equity_curve, trade_records, total_bars and final_equity (compared
\* here for the strategy that submits no order in either run).
SecondRunEqualsFirst ==
    /\ ( runs # <<>> /\ pc = "feed" /\ bars_fed = 0 ) =>
           /\ pm.cash = D(initial_capital)
           /\ OpenSymbols(pm) = {}
           /\ pending_orders = <<>>
           /\ pm.trade_records = <<>>
           /\ pm.equity_curve = <<>>
           /\ ~ risk.trading_halted
    /\ ( runs # <<>> /\ pc = "done" ) =>
           /\ Len(result.equity_curve) = result.total_bars
           /\ uuid = 0 =>
                /\ result.equity_curve = runs[1].equity_curve
                /\ result.trade_records = runs[1].trade_records
                /\ result.total_bars = runs[1].total_bars
                /\ result.final_equity = runs[1].final_equity

====
